---- MODULE Spec2Model ----
(***************************************************************************)
(* Model of gh-load-pull-request: the backend selector and the two backend *)
(* adapters (backends.mjs), and the CLI entry point, the timeline renderer *)
(* and the offline packager (gh-load-pull-request.mjs).                    *)
(*                                                                         *)
(* Text is a sequence of tokens (each token a string standing for a run of *)
(* characters), so that scanning and replacing are computed, not assumed.  *)
(***************************************************************************)
EXTENDS Integers, Sequences, FiniteSets, TLC

VARIABLES
  entry,      \* the exported function this run entered through
  pc,         \* position of the single logical flow
  argv,       \* main: the parsed command line
  token,      \* main: the `token` local
  prInfo,     \* main: result of parsePrUrl
  opts,       \* loadPullRequest: its options object
  ghError,    \* loadPullRequest: the error caught from the CLI adapter
  calls,      \* every external interaction so far, in order
  loaded,     \* outcome of loadPullRequest
  exitCode,   \* process exit status (-1 while running)
  logs,       \* lines logged through log()
  remote,     \* the pull request as GitHub holds it
  data,       \* convertToMarkdown / savePullRequest: the dataset passed in
  ropts,      \* convertToMarkdown: its options
  ri,         \* convertToMarkdown: the text block being processed
  markdown,   \* convertToMarkdown: the document so far, one entry per block
  allDownloadedImages,  \* convertToMarkdown: the accumulated image records
  downloads,  \* every downloadFile call so far, in order
  loop,       \* downloadImages: the locals of the call in progress
  fsLog,      \* every file-system operation so far, in order
  sopts,      \* savePullRequest: its options
  stdout,     \* what main printed with console.log
  dl,         \* downloadFile: the call in progress, its requests and outcome
  call        \* a direct call of a pure exported function: argument and result

mainVars == <<argv, token, prInfo, exitCode, logs, stdout>>

loadVars == <<opts, ghError, calls, loaded>>

renderVars == <<data, ropts, ri, markdown, allDownloadedImages, downloads, loop>>

saveVars == <<sopts, fsLog>>

vars == <<entry, pc, remote, mainVars, loadVars, renderVars, saveVars, dl, call>>

\* ------------------------------------------------------------------ values

None == "null"

NoError == [msg |-> "", raw |-> <<>>]

NoData == [pr |-> [number |-> 0, title |-> "", state |-> "", merged |-> FALSE,
                   user |-> "", body |-> <<>>],
           files |-> <<>>, comments |-> <<>>, reviewComments |-> <<>>,
           reviews |-> <<>>, commits |-> <<>>]

NotLoaded == [status |-> "none", data |-> NoData, error |-> NoError, by |-> ""]

Ok(d, by) == [status |-> "ok", data |-> d, error |-> NoError, by |-> by]

Failed(error, by) == [status |-> "error", data |-> NoData, error |-> error, by |-> by]

\* the result of a probe or of a single command
Answer(s) == [status |-> s, data |-> NoData, error |-> NoError, by |-> ""]

NoOpts == [owner |-> <<>>, repo |-> <<>>, prNumber |-> 0, token |-> None,
           includeReviews |-> TRUE, forceApi |-> FALSE, forceGh |-> FALSE]

NoArgv == [pr |-> <<>>, token |-> None, output |-> <<>>,
           downloadImages |-> TRUE, includeReviews |-> TRUE,
           format |-> "markdown", forceApi |-> FALSE, forceGh |-> FALSE,
           flagToken |-> None, envToken |-> None]

\* main has not called parsePrUrl yet
NoPrInfo == [owner |-> <<>>, repo |-> <<>>, prNumber |-> -1]

NoRopts == [downloadImagesFlag |-> TRUE, imagesDir |-> <<>>, token |-> "",
            prNumber |-> 0]

NoSopts == [outputDir |-> <<>>, format |-> "markdown", downloadImages |-> TRUE,
            token |-> ""]

\* the result of a downloadFile call that has not settled
Unsettled == [error |-> "unsettled", bytes |-> <<>>]

\* no pure function has been called directly
NoCall == [arg |-> <<>>, result |-> "none"]

NoLoop == [images |-> <<>>, k |-> 0, content |-> <<>>, downloadedImages |-> <<>>,
           imageCounter |-> 1, inFlight |-> {}]

NoDownload == [url |-> <<>>, token |-> "", maxRedirects |-> 0, limit |-> 0,
               script |-> <<>>, requests |-> <<>>, phase |-> <<>>, chunks |-> <<>>,
               called |-> {}, settles |-> 0, result |-> Unsettled]

\* One external interaction: an adapter invocation (result: its outcome), a probe
\* (result.status "true" or "false"), a gh command or a REST request.
Call(op, args, requested, result) ==
  [op |-> op, args |-> args, requested |-> requested, result |-> result]

\* the options an adapter is called with
AdapterArgs(o, withToken) ==
  [owner |-> o.owner, repo |-> o.repo, prNumber |-> o.prNumber,
   token |-> IF withToken THEN o.token ELSE None,
   includeReviews |-> o.includeReviews]

NoArgs == [owner |-> <<>>, repo |-> <<>>, prNumber |-> 0, token |-> None,
           includeReviews |-> FALSE]

\* ------------------------------------------------------------------ GitHub

\* Pull requests as GitHub holds them (REST shape).
Comment(id, who, body, at) ==
  [id |-> id, user |-> who, body |-> body, created_at |-> at]

Review(id, who, state, body, at) ==
  [id |-> id, user |-> who, state |-> state, body |-> body, submitted_at |-> at]

ReviewComment(id, who, body, at, rid) ==
  [id |-> id, user |-> who, body |-> body, created_at |-> at,
   pull_request_review_id |-> rid]

\* submitted_at 0 stands for null (a pending review); real timestamps are > 0.
\* A review comment belongs to a review the pull request has.
RemotePRs ==
  { [number |-> 7, title |-> "T", state |-> sm[1], merged |-> sm[2],
     user |-> "alice", body |-> <<"text">>,
     files |-> <<"f1">>, commits |-> <<"c1">>,
     comments |-> <<Comment(1, "bob", <<"text">>, 2)>>,
     reviews |-> rv[1],
     reviewComments |-> rv[2]]
    : sm \in {<<"open", FALSE>>, <<"closed", FALSE>>, <<"closed", TRUE>>},
      rv \in { << <<>>, <<>> >>,
               << <<Review(11, "carol", "APPROVED", <<>>, 1),
                    Review(12, "dave", "PENDING", <<>>, 0)>>,
                  <<>> >>,
               << <<Review(11, "carol", "APPROVED", <<>>, 1),
                    Review(12, "dave", "PENDING", <<>>, 0)>>,
                  <<ReviewComment(21, "carol", <<"text">>, 1, 11)>> >> } }

\* ------------------------------------------------------------------ gh CLI

\* String.prototype.toLowerCase on the state names gh reports.
toLowerCase(s) ==
  CASE s = "OPEN" -> "open"
    [] s = "CLOSED" -> "closed"
    [] s = "MERGED" -> "merged"
    [] OTHER -> s

\* What `gh pr view --json <all fields>` holds for a pull request: gh reports
\* the state as OPEN, CLOSED or MERGED and names the fields in camelCase.
GhFull(r) ==
  [number |-> r.number, title |-> r.title,
   state |-> IF r.merged THEN "MERGED"
             ELSE IF r.state = "open" THEN "OPEN" ELSE "CLOSED",
   author |-> r.user, body |-> r.body,
   files |-> r.files, commits |-> r.commits,
   comments |-> [i \in 1..Len(r.comments) |->
                   [id |-> r.comments[i].id, author |-> r.comments[i].user,
                    body |-> r.comments[i].body,
                    createdAt |-> r.comments[i].created_at]],
   reviews |-> [i \in 1..Len(r.reviews) |->
                  [id |-> r.reviews[i].id, author |-> r.reviews[i].user,
                   state |-> r.reviews[i].state, body |-> r.reviews[i].body,
                   submittedAt |-> r.reviews[i].submitted_at]]]

Range(seq) == {seq[i] : i \in 1..Len(seq)}

\* gh prints exactly the requested fields.
GhView(r, fields) == [f \in Range(fields) |-> GhFull(r)[f]]

\* mutant: the reviews field is requested whatever includeReviews says
jsonFields_Always(includeReviews) ==
  <<"number", "title", "state", "body", "author", "files", "commits", "comments",
    "reviews">>

\* the field list of loadPullRequestWithGh, as far as the model carries fields
jsonFields(includeReviews) ==
  <<"number", "title", "state", "body", "author", "files", "commits", "comments">>
  \o (IF includeReviews THEN <<"reviews">> ELSE <<>>)

transformGhPrData(ghData) ==
  [pr |-> [number |-> ghData.number, title |-> ghData.title,
           state |-> toLowerCase(ghData.state),
           merged |-> (ghData.state = "MERGED"),
           user |-> ghData.author, body |-> ghData.body],
   files |-> ghData.files,
   comments |-> [i \in 1..Len(ghData.comments) |->
                   Comment(ghData.comments[i].id, ghData.comments[i].author,
                           ghData.comments[i].body, ghData.comments[i].createdAt)],
   reviewComments |-> <<>>,
   reviews |-> IF "reviews" \in DOMAIN ghData
               THEN [i \in 1..Len(ghData.reviews) |->
                       Review(ghData.reviews[i].id, ghData.reviews[i].author,
                              ghData.reviews[i].state, ghData.reviews[i].body,
                              ghData.reviews[i].submittedAt)]
               ELSE <<>>,
   commits |-> ghData.commits]

\* Which of the needles the error classifier looks for occur in a token.
Needles(tok) ==
  CASE tok = "author" -> {"auth"}
    [] tok = "authentication required" -> {"auth"}
    [] tok = "HTTP 401" -> {"401"}
    [] tok = "Could not resolve to a PullRequest" -> {"Could not resolve"}
    [] tok = "repository not found" -> {"not found"}
    [] OTHER -> {}

includes(msg, needle) == \E i \in 1..Len(msg) : needle \in Needles(msg[i])

\* error.message of a failed execSync: "Command failed: <command>\n<stderr>"
CommandFailed(command, stderr) == <<"Command failed:">> \o command \o stderr

ghCommand(o) == <<"gh pr view", "--json">> \o jsonFields(o.includeReviews)

\* what gh prints on stderr when the primary command exits non-zero
GhStderr ==
  { <<"Could not resolve to a PullRequest">>, <<"repository not found">>,
    <<"HTTP 401">>, <<"authentication required">>, <<"connection reset">> }

\* failures of the primary call that carry no command line: the 60 s timeout
\* of execSync and a JSON.parse failure on the output
GhOtherFailures == { <<"spawnSync ETIMEDOUT">>, <<"Unexpected token in JSON">> }

GhPrimaryFailures(o) ==
  {CommandFailed(ghCommand(o), e) : e \in GhStderr} \cup GhOtherFailures

\* the catch block of loadPullRequestWithGh
GhClassify(errorMessage) ==
  IF includes(errorMessage, "not found") \/ includes(errorMessage, "Could not resolve")
  THEN [msg |-> "Pull request not found", raw |-> <<>>]
  ELSE IF includes(errorMessage, "auth") \/ includes(errorMessage, "401")
  THEN [msg |-> "Authentication failed. Please run gh auth login", raw |-> <<>>]
  ELSE [msg |-> "Failed to fetch pull request via gh CLI", raw |-> errorMessage]

\* mutant: a failure of the review-comments call fails the adapter
loadPullRequestWithGh_SupplementaryFatal(o, r, primary, supplementary) ==
  LET fields == jsonFields(o.includeReviews)
      outcome ==
        IF primary # <<"ok">> THEN Failed(GhClassify(primary), "gh")
        ELSE IF ~supplementary THEN Failed(GhClassify(<<"connection reset">>), "gh")
        ELSE Ok([transformGhPrData(GhView(r, fields)) EXCEPT
                   !.reviewComments = r.reviewComments], "gh")
      first == <<Call("loadPullRequestWithGh", o, <<>>, outcome),
                 Call("gh pr view", o, fields,
                      IF primary = <<"ok">> THEN Answer("ok")
                      ELSE [Answer("error") EXCEPT !.error.raw = primary])>>
  IN [ran |-> IF primary # <<"ok">> THEN first
              ELSE Append(first,
                          Call("gh api pulls/comments", o, <<>>,
                               Answer(IF supplementary THEN "ok" ELSE "error"))),
      outcome |-> outcome]

\* loadPullRequestWithGh(options): `primary` is "ok" or the error message of the
\* failed primary call, `supplementary` whether the review-comments call worked.
\* Returns the commands run (a failed primary call with the message it threw)
\* and the outcome.
loadPullRequestWithGh(o, r, primary, supplementary) ==
  LET fields == jsonFields(o.includeReviews)
      outcome ==
        IF primary # <<"ok">>
        THEN Failed(GhClassify(primary), "gh")
        ELSE Ok([transformGhPrData(GhView(r, fields)) EXCEPT
                   !.reviewComments = IF supplementary THEN r.reviewComments
                                      ELSE <<>>], "gh")
      first == <<Call("loadPullRequestWithGh", o, <<>>, outcome),
                 Call("gh pr view", o, fields,
                      IF primary = <<"ok">> THEN Answer("ok")
                      ELSE [Answer("error") EXCEPT !.error.raw = primary])>>
  IN [ran |-> IF primary # <<"ok">> THEN first
              ELSE Append(first,
                          Call("gh api pulls/comments", o, <<>>,
                               Answer(IF supplementary THEN "ok" ELSE "error"))),
      outcome |-> outcome]

\* ------------------------------------------------------------------ REST API

ApiEndpoints(includeReviews) ==
  <<"pulls.get", "pulls.listFiles", "issues.listComments",
    "pulls.listReviewComments">>
  \o (IF includeReviews THEN <<"pulls.listReviews">> ELSE <<>>)
  \o <<"pulls.listCommits">>

\* HTTP statuses a failing request answers with
ApiFailStatuses == {404, 401, 500}

\* the catch block of loadPullRequestWithApi
ApiClassify(status) ==
  IF status = 404 THEN [msg |-> "Pull request not found", raw |-> <<>>]
  ELSE IF status = 401
  THEN [msg |-> "Authentication failed. Please provide a valid GitHub token",
        raw |-> <<>>]
  ELSE [msg |-> "Failed to fetch pull request via API", raw |-> <<"HTTP error">>]

\* loadPullRequestWithApi(options): the request number `failAt` fails with
\* `status` (0: none fails).
loadPullRequestWithApi(o, r, failAt, status) ==
  LET eps == ApiEndpoints(o.includeReviews)
      n == IF failAt = 0 THEN Len(eps) ELSE failAt
      outcome ==
        IF failAt # 0
        THEN Failed(ApiClassify(status), "api")
        ELSE Ok([pr |-> [number |-> r.number, title |-> r.title,
                         state |-> r.state, merged |-> r.merged,
                         user |-> r.user, body |-> r.body],
                 files |-> r.files, comments |-> r.comments,
                 reviewComments |-> r.reviewComments,
                 reviews |-> IF "pulls.listReviews" \in Range(eps)
                             THEN r.reviews ELSE <<>>,
                 commits |-> r.commits], "api")
  IN [ran |-> <<Call("loadPullRequestWithApi", o, <<>>, outcome)>>
              \o [i \in 1..n |->
                    Call(eps[i], o, <<>>,
                         Answer(IF i = failAt THEN "error" ELSE "ok"))],
      outcome |-> outcome]

\* ------------------------------------------------------------------ loadPullRequest

\* where control goes when loadPullRequest settles
AfterLoad == IF entry = "main" THEN "m_loaded" ELSE "done"

NotInstalledError ==
  [msg |-> "gh CLI is required but not installed", raw |-> <<>>]

NotAuthenticatedError ==
  [msg |-> "gh CLI is not authenticated. Please run gh auth login", raw |-> <<>>]

\* mutant: gh is probed before forceApi is looked at
LoadStart_ProbeFirst ==
  /\ pc = "l_start"
  /\ \E ghInstalled \in BOOLEAN :
       /\ calls' = Append(calls, Call("gh --version", NoArgs, <<>>,
                                      Answer(IF ghInstalled THEN "true" ELSE "false")))
       /\ IF opts.forceApi
          THEN pc' = "l_api" /\ UNCHANGED loaded
          ELSE IF opts.forceGh /\ ~ghInstalled
               THEN loaded' = Failed(NotInstalledError, "") /\ pc' = AfterLoad
               ELSE /\ pc' = IF ghInstalled THEN "l_auth" ELSE "l_api"
                    /\ UNCHANGED loaded
  /\ UNCHANGED <<call, dl, entry, remote, opts, ghError, mainVars, renderVars, saveVars>>

\* loadPullRequest up to and including `await isGhInstalled()`
LoadStart ==
  /\ pc = "l_start"
  /\ IF opts.forceApi
     THEN /\ pc' = "l_api"
          /\ UNCHANGED <<calls, loaded>>
     ELSE \E ghInstalled \in BOOLEAN :
            /\ calls' = Append(calls, Call("gh --version", NoArgs, <<>>,
                                           Answer(IF ghInstalled THEN "true"
                                                  ELSE "false")))
            /\ IF opts.forceGh /\ ~ghInstalled
               THEN /\ loaded' = Failed(NotInstalledError, "")
                    /\ pc' = AfterLoad
               ELSE /\ pc' = IF ghInstalled THEN "l_auth" ELSE "l_api"
                    /\ UNCHANGED loaded
  /\ UNCHANGED <<call, dl, entry, remote, opts, ghError, mainVars, renderVars, saveVars>>

\* mutant: an unauthenticated gh falls back to the API even under forceGh
LoadAuth_AlwaysFallBack ==
  /\ pc = "l_auth"
  /\ \E ghAuth \in BOOLEAN :
       /\ calls' = Append(calls, Call("gh auth status", NoArgs, <<>>,
                                      Answer(IF ghAuth THEN "true" ELSE "false")))
       /\ pc' = IF ghAuth THEN "l_gh" ELSE "l_api"
       /\ UNCHANGED loaded
  /\ UNCHANGED <<call, dl, entry, remote, opts, ghError, mainVars, renderVars, saveVars>>

\* `await isGhAuthenticated()` and the branch on it
LoadAuth ==
  /\ pc = "l_auth"
  /\ \E ghAuth \in BOOLEAN :
       /\ calls' = Append(calls, Call("gh auth status", NoArgs, <<>>,
                                      Answer(IF ghAuth THEN "true" ELSE "false")))
       /\ IF ghAuth
          THEN pc' = "l_gh" /\ UNCHANGED loaded
          ELSE IF opts.forceGh
               THEN loaded' = Failed(NotAuthenticatedError, "") /\ pc' = AfterLoad
               ELSE pc' = "l_api" /\ UNCHANGED loaded
  /\ UNCHANGED <<call, dl, entry, remote, opts, ghError, mainVars, renderVars, saveVars>>

\* mutant: a failure of the CLI adapter is rethrown whatever forceGh says
LoadWithGh_NoFallback ==
  /\ pc = "l_gh"
  /\ \E primary \in {<<"ok">>} \cup GhPrimaryFailures(opts), supplementary \in BOOLEAN :
       LET res == loadPullRequestWithGh(AdapterArgs(opts, FALSE), remote,
                                        primary, supplementary)
       IN /\ calls' = calls \o res.ran
          /\ loaded' = res.outcome
          /\ pc' = AfterLoad
  /\ UNCHANGED <<call, dl, entry, remote, opts, ghError, mainVars, renderVars, saveVars>>

\* try { return await loadPullRequestWithGh(...) } catch (ghError) { ... }
LoadWithGh ==
  /\ pc = "l_gh"
  /\ \E primary \in {<<"ok">>} \cup GhPrimaryFailures(opts), supplementary \in BOOLEAN :
       LET res == loadPullRequestWithGh(AdapterArgs(opts, FALSE), remote,
                                        primary, supplementary)
       IN /\ calls' = calls \o res.ran
          /\ IF res.outcome.status = "ok" \/ opts.forceGh
             THEN /\ loaded' = res.outcome
                  /\ pc' = AfterLoad
                  /\ UNCHANGED ghError
             ELSE /\ ghError' = res.outcome.error
                  /\ pc' = "l_api"
                  /\ UNCHANGED loaded
  /\ UNCHANGED <<call, dl, entry, remote, opts, mainVars, renderVars, saveVars>>

\* return loadPullRequestWithApi(...)
LoadWithApi ==
  /\ pc = "l_api"
  /\ \E failAt \in 0..Len(ApiEndpoints(opts.includeReviews)), status \in ApiFailStatuses :
       LET res == loadPullRequestWithApi(AdapterArgs(opts, TRUE), remote,
                                         failAt, status)
       IN /\ calls' = calls \o res.ran
          /\ loaded' = res.outcome
          /\ pc' = AfterLoad
  /\ UNCHANGED <<call, dl, entry, remote, opts, ghError, mainVars, renderVars, saveVars>>

LoadOptions ==
  [owner : {<<"o">>}, repo : {<<"r">>}, prNumber : {7}, token : {None, "tok"},
   includeReviews : BOOLEAN, forceApi : BOOLEAN, forceGh : BOOLEAN]

\* the state of the parts a run has not entered
IdleMain ==
  /\ argv = NoArgv
  /\ token = None
  /\ prInfo = NoPrInfo
  /\ exitCode = -1
  /\ logs = <<>>
  /\ stdout = <<>>

IdleLoad ==
  /\ ghError = NoError
  /\ calls = <<>>
  /\ loaded = NotLoaded

IdleRender ==
  /\ ri = 0
  /\ markdown = <<>>
  /\ allDownloadedImages = <<>>
  /\ downloads = <<>>
  /\ loop = NoLoop

IdleSave ==
  /\ sopts = NoSopts
  /\ fsLog = <<>>

IdleDownload == dl = NoDownload

IdleCall == call = NoCall

InitLoad ==
  /\ entry = "loadPullRequest"
  /\ pc = "l_start"
  /\ opts \in LoadOptions
  /\ remote \in RemotePRs
  /\ IdleMain /\ IdleLoad /\ IdleRender /\ IdleSave /\ IdleDownload /\ IdleCall
  /\ data = NoData
  /\ ropts = NoRopts

NextLoad == LoadStart \/ LoadAuth \/ LoadWithGh \/ LoadWithApi

SpecLoad == InitLoad /\ [][NextLoad]_vars

\* ------------------------------------------------------------------ text and images

\* Tokens of a text block. "![x](" is the start of a markdown image up to its
\* opening parenthesis, "<img src='" the start of an HTML image up to its opening
\* quote, "'>" the closing quote and bracket; the other tokens are pieces of
\* URLs and words. A URL is the sequence of the tokens it is written with.
\* the tokens holding a closing parenthesis or whitespace: [^)\s] rejects them
HasParenOrSpace == {")", " ", "<img src='"}

\* the tokens holding a quote: [^"'] rejects them
HasQuote == {"<img src='", "'>"}

\* the end of the longest run of tokens from position i on with none in stops
RECURSIVE RunEnd(_, _, _)
RunEnd(content, i, stops) ==
  IF i > Len(content) \/ content[i] \in stops THEN i - 1
  ELSE RunEnd(content, i + 1, stops)

\* mdImageRegex.exec in a loop: /!\[([^\]]*)\]\(([^)\s]+)(?:\s+"[^"]*")?\)/g
RECURSIVE MdMatches(_, _)
MdMatches(content, i) ==
  IF i > Len(content) THEN <<>>
  ELSE IF content[i] # "![x](" THEN MdMatches(content, i + 1)
  ELSE LET e == RunEnd(content, i + 1, HasParenOrSpace)
       IN IF e > i /\ e < Len(content) /\ content[e + 1] = ")"
          THEN <<SubSeq(content, i + 1, e)>> \o MdMatches(content, e + 2)
          ELSE MdMatches(content, i + 1)

\* htmlImageRegex.exec in a loop: /<img[^>]+src=["']([^"']+)["'][^>]*>/gi
RECURSIVE HtmlMatches(_, _)
HtmlMatches(content, i) ==
  IF i > Len(content) THEN <<>>
  ELSE IF content[i] # "<img src='" THEN HtmlMatches(content, i + 1)
  ELSE LET e == RunEnd(content, i + 1, HasQuote)
       IN IF e > i /\ e < Len(content) /\ content[e + 1] = "'>"
          THEN <<SubSeq(content, i + 1, e)>> \o HtmlMatches(content, e + 2)
          ELSE HtmlMatches(content, i + 1)

\* the urls of extractMarkdownImageUrls(content), in the order it returns them
extractMarkdownImageUrls(content) ==
  IF content = <<>> THEN <<>>
  ELSE MdMatches(content, 1) \o HtmlMatches(content, 1)

IsPrefixAt(content, i, url) ==
  /\ i + Len(url) - 1 <= Len(content)
  /\ SubSeq(content, i, i + Len(url) - 1) = url

\* content.split(url).join(relativePath)
RECURSIVE SplitJoin(_, _, _, _)
SplitJoin(content, i, url, relativePath) ==
  IF i > Len(content) THEN <<>>
  ELSE IF IsPrefixAt(content, i, url)
  THEN relativePath \o SplitJoin(content, i + Len(url), url, relativePath)
  ELSE <<content[i]>> \o SplitJoin(content, i + 1, url, relativePath)

\* ------------------------------------------------------------------ image validation

StartsWith(bytes, magic) ==
  /\ Len(bytes) >= Len(magic)
  /\ \A i \in 1..Len(magic) : bytes[i] = magic[i]

\* the entries of imageMagicBytes, in the order Object.entries yields them
imageMagicBytes ==
  << [format |-> "png", magic |-> <<137, 80, 78, 71>>],
     [format |-> "jpg", magic |-> <<255, 216, 255>>],
     [format |-> "gif", magic |-> <<71, 73, 70, 56>>],
     [format |-> "webp", magic |-> <<82, 73, 70, 70>>],
     [format |-> "bmp", magic |-> <<66, 77>>],
     [format |-> "ico", magic |-> <<0, 0, 1, 0>>],
     [format |-> "svg", magic |-> <<60, 63, 120, 109, 108>>] >>

htmlMarkers ==
  { <<60, 33>>, <<60, 104, 116, 109, 108>>, <<60, 72, 84, 77, 76>> }

svgMarker == <<60, 115, 118, 103>>

FirstMagic(bytes) ==
  LET hits == {i \in 1..Len(imageMagicBytes) : StartsWith(bytes, imageMagicBytes[i].magic)}
  IN IF hits = {} THEN "none"
     ELSE imageMagicBytes[CHOOSE i \in hits : \A j \in hits : i <= j].format

\* the validation without the check for an HTML page
validateImageBuffer_NoHtmlCheck(buffer) ==
  LET bytes == SubSeq(buffer, 1, IF Len(buffer) < 8 THEN Len(buffer) ELSE 8)
  IN IF Len(buffer) < 4
     THEN [valid |-> FALSE, format |-> "", reason |-> "Buffer too small"]
     ELSE IF FirstMagic(bytes) # "none"
     THEN [valid |-> TRUE, format |-> FirstMagic(bytes), reason |-> ""]
     ELSE IF StartsWith(bytes, svgMarker)
     THEN [valid |-> TRUE, format |-> "svg", reason |-> ""]
     ELSE [valid |-> TRUE, format |-> "unknown", reason |-> ""]

\* validateImageBuffer(buffer, url); buffer <<>> also stands for a null buffer
validateImageBuffer(buffer) ==
  LET bytes == SubSeq(buffer, 1, IF Len(buffer) < 8 THEN Len(buffer) ELSE 8)
  IN IF Len(buffer) < 4
     THEN [valid |-> FALSE, format |-> "", reason |-> "Buffer too small"]
     ELSE IF \E m \in htmlMarkers : StartsWith(bytes, m)
     THEN [valid |-> FALSE, format |-> "",
           reason |-> "Downloaded file is HTML (likely error page)"]
     ELSE IF FirstMagic(bytes) # "none"
     THEN [valid |-> TRUE, format |-> FirstMagic(bytes), reason |-> ""]
     ELSE IF StartsWith(bytes, svgMarker)
     THEN [valid |-> TRUE, format |-> "svg", reason |-> ""]
     ELSE [valid |-> TRUE, format |-> "unknown", reason |-> ""]

KnownExtensions == {".png", ".jpg", ".jpeg", ".gif", ".webp", ".bmp", ".ico", ".svg"}

\* hosts a URL can start with; a URL starting with anything else does not parse
Hosts == {"https://github.com/", "https://cdn.example/"}

\* getExtensionFromFormat(format, url)
getExtensionFromFormat(format, url) ==
  CASE format = "png" -> ".png"
    [] format = "jpg" -> ".jpg"
    [] format = "gif" -> ".gif"
    [] format = "webp" -> ".webp"
    [] format = "bmp" -> ".bmp"
    [] format = "ico" -> ".ico"
    [] format = "svg" -> ".svg"
    [] OTHER ->
         IF Len(url) >= 3 /\ url[1] \in Hosts /\ url[Len(url)] \in KnownExtensions
         THEN (IF url[Len(url)] = ".jpeg" THEN ".jpg" ELSE url[Len(url)])
         ELSE ".png"

\* ------------------------------------------------------------------ files

DigitTokens == <<"0", "1", "2", "3", "4", "5", "6", "7", "8", "9">>

\* `${n}` for a non-negative integer: its decimal digits, one token each
RECURSIVE DecimalOf(_)
DecimalOf(n) ==
  IF n < 10 THEN <<DigitTokens[n + 1]>>
  ELSE Append(DecimalOf(n \div 10), DigitTokens[(n % 10) + 1])

\* path.join(dir, name): a path is the sequence of its components, a component
\* the sequence of the tokens it is written with
Join(dir, name) == Append(dir, name)

\* one file-system operation: fs.ensureDir(path) or fs.writeFile(path, ...)
FsOp(op, path, bytes, text) ==
  [op |-> op, path |-> path, bytes |-> bytes, text |-> text]

\* ------------------------------------------------------------------ downloadImages

PngBytes == <<137, 80, 78, 71, 13, 10, 26, 10>>

HtmlBytes == <<60, 33, 68, 79, 67, 84>>

PlainBytes == <<1, 2, 3, 4>>

ShortBytes == <<71, 73>>

Fetched(bytes) == [error |-> "", bytes |-> bytes]

FetchFailed(msg) == [error |-> msg, bytes |-> <<>>]

\* how a request of downloadFile can settle: the body of a 200 response, or one
\* of its rejections
Fetches ==
  {Fetched(b) : b \in {PngBytes, HtmlBytes, PlainBytes, ShortBytes}}
  \cup {FetchFailed(m) : m \in {"HTTP 404", "Too many redirects", "Request timeout"}}

GitHubHost == "https://github.com/"

\* mutant: a string that is no absolute URL is requested like any other
downloadFile_AnyString(url, tok, fetch) ==
  [url |-> url, requested |-> TRUE,
   auth |-> IF tok # "" /\ tok # None /\ url[1] = GitHubHost THEN tok ELSE None,
   result |-> fetch]

\* downloadFile(url, token): `new URL(url)` throws on a string that is no
\* absolute URL, before any request; otherwise the request settles as `fetch`.
\* auth is the token sent in the Authorization header, None when none is sent.
downloadFile(url, tok, fetch) ==
  IF url[1] \notin Hosts
  THEN [url |-> url, requested |-> FALSE, auth |-> None,
        result |-> FetchFailed("Invalid URL")]
  ELSE [url |-> url, requested |-> TRUE,
        auth |-> IF tok # "" /\ tok # None /\ url[1] = GitHubHost
                 THEN tok ELSE None,
        result |-> fetch]

\* downloadImages from its entry to its for loop: the locals of the call
downloadImages(content) ==
  [images |-> extractMarkdownImageUrls(content), k |-> 1, content |-> content,
   downloadedImages |-> <<>>, imageCounter |-> 1, inFlight |-> {}]

\* the rest of an iteration of the for loop once `await downloadFile(url, token)`
\* has settled as `got`: the locals after it and the file it wrote
Iteration(l, imagesDir, got) ==
  LET url == l.images[l.k]
      validation == validateImageBuffer(got.result.bytes)
      next == [l EXCEPT !.k = @ + 1, !.inFlight = @ \ {l.k}]
  IN IF got.result.error # "" \/ ~validation.valid
     THEN [loop |-> next, fsOps |-> <<>>]
     ELSE
       LET ext == getExtensionFromFormat(validation.format, url)
           filename == <<"image-">> \o DecimalOf(l.imageCounter) \o <<ext>>
           localPath == Join(imagesDir, filename)
           relativePath == <<"./images/">> \o filename
       IN [loop |-> [next EXCEPT
                       !.downloadedImages =
                          Append(@, [originalUrl |-> url, localPath |-> localPath,
                                     relativePath |-> relativePath,
                                     format |-> validation.format]),
                       !.content = SplitJoin(@, 1, url, relativePath),
                       !.imageCounter = @ + 1],
           fsOps |-> <<FsOp("writeFile", localPath, got.result.bytes, <<>>)>>]

\* processContent and the early returns of downloadImages: whether the for loop
\* is entered for this content
processContent(content, downloadImagesFlag) ==
  downloadImagesFlag /\ content # <<>>
  /\ Len(extractMarkdownImageUrls(content)) # 0

\* ------------------------------------------------------------------ convertToMarkdown

TimelineEvent(type, at, d) == [type |-> type, timestamp |-> at, data |-> d]

\* mutant: an event is placed before the events of the same timestamp
RECURSIVE InsertByTimestamp_TiesFirst(_, _)
InsertByTimestamp_TiesFirst(sorted, e) ==
  IF sorted = <<>> THEN <<e>>
  ELSE IF sorted[Len(sorted)].timestamp < e.timestamp THEN Append(sorted, e)
  ELSE Append(InsertByTimestamp_TiesFirst(SubSeq(sorted, 1, Len(sorted) - 1), e),
              sorted[Len(sorted)])

\* Array.prototype.sort is stable: an event goes after every event the
\* comparator (a, b) => a.timestamp - b.timestamp does not put after it
RECURSIVE InsertByTimestamp(_, _)
InsertByTimestamp(sorted, e) ==
  IF sorted = <<>> THEN <<e>>
  ELSE IF sorted[Len(sorted)].timestamp <= e.timestamp THEN Append(sorted, e)
  ELSE Append(InsertByTimestamp(SubSeq(sorted, 1, Len(sorted) - 1), e),
              sorted[Len(sorted)])

\* timelineEvents.sort((a, b) => a.timestamp - b.timestamp)
RECURSIVE sort(_)
sort(events) ==
  IF events = <<>> THEN <<>>
  ELSE InsertByTimestamp(sort(SubSeq(events, 1, Len(events) - 1)),
                         events[Len(events)])

Submitted(review) == review.submitted_at # 0

\* mutant: every review is pushed, submitted or not
pushed_AllReviews(d) ==
  [i \in 1..Len(d.comments) |->
     TimelineEvent("comment", d.comments[i].created_at, d.comments[i])]
  \o [i \in 1..Len(d.reviews) |->
        TimelineEvent("review", d.reviews[i].submitted_at, d.reviews[i])]

\* the events in the order the two for loops push them
pushed(d) ==
  LET submitted == SelectSeq(d.reviews, Submitted)
  IN [i \in 1..Len(d.comments) |->
        TimelineEvent("comment", d.comments[i].created_at, d.comments[i])]
     \o [i \in 1..Len(submitted) |->
           TimelineEvent("review", submitted[i].submitted_at, submitted[i])]

timelineEvents(d) == sort(pushed(d))

\* One text block of the document: the section it is written to, what it is,
\* whose it is, and `under`, the review an inline comment is nested under.
Block(section, kind, id, user, at, body, under) ==
  [section |-> section, kind |-> kind, id |-> id, user |-> user, at |-> at,
   body |-> body, under |-> under]

\* reviewComments.filter((rc) => rc.pull_request_review_id === review.id)
reviewReviewComments(d, review) ==
  SelectSeq(d.reviewComments, LAMBDA rc : rc.pull_request_review_id = review.id)

\* reviewComments.filter((rc) => !rc.pull_request_review_id)
standaloneReviewComments(d) ==
  SelectSeq(d.reviewComments, LAMBDA rc : rc.pull_request_review_id = 0)

\* the blocks the loop over timelineEvents writes, from event i on
RECURSIVE ConversationBlocks(_, _, _)
ConversationBlocks(d, events, i) ==
  IF i > Len(events) THEN <<>>
  ELSE LET e == events[i].data
       IN (IF events[i].type = "comment"
           THEN <<Block("Conversation", "comment", e.id, e.user, e.created_at,
                        e.body, 0)>>
           ELSE LET inline == reviewReviewComments(d, e)
                IN <<Block("Conversation", "review", e.id, e.user,
                           e.submitted_at, e.body, 0)>>
                   \o [j \in 1..Len(inline) |->
                         Block("Conversation", "inline", inline[j].id,
                               inline[j].user, inline[j].created_at,
                               inline[j].body, e.id)])
          \o ConversationBlocks(d, events, i + 1)

\* the text blocks of the document in the order convertToMarkdown writes them
Blocks(d) ==
  LET events == timelineEvents(d)
      standalone == standaloneReviewComments(d)
  IN <<Block("Description", "description", d.pr.number, d.pr.user, 0,
             d.pr.body, 0)>>
     \o (IF Len(events) = 0
         THEN <<Block("Conversation", "nothing", 0, "", 0, <<>>, 0)>>
         ELSE ConversationBlocks(d, events, 1))
     \o [j \in 1..Len(standalone) |->
           Block("Inline Code Comments", "standalone", standalone[j].id,
                 standalone[j].user, standalone[j].created_at,
                 standalone[j].body, 0)]

Saving == entry = "savePullRequest" \/ (entry = "main" /\ argv.output # <<>>)

\* where control goes when convertToMarkdown returns
AfterRender ==
  IF entry = "convertToMarkdown" THEN "done"
  ELSE IF Saving THEN "s_write" ELSE "m_print"

\* one text block: it is appended to the document as it is, or downloadImages
\* is entered for it (fs.ensureDir and the start of the for loop)
RenderBlock ==
  /\ pc = "r_block"
  /\ ri <= Len(Blocks(data))
  /\ LET b == Blocks(data)[ri]
     IN IF processContent(b.body, ropts.downloadImagesFlag)
        THEN /\ loop' = downloadImages(b.body)
             /\ fsLog' = Append(fsLog, FsOp("ensureDir", ropts.imagesDir, <<>>, <<>>))
             /\ pc' = "r_image"
             /\ UNCHANGED <<markdown, ri>>
        ELSE /\ markdown' = Append(markdown, b)
             /\ ri' = ri + 1
             /\ UNCHANGED <<loop, fsLog, pc>>
  /\ UNCHANGED <<call, dl, entry, remote, mainVars, loadVars, data, ropts,
                 allDownloadedImages, downloads, sopts>>

\* mutant: the downloads of all the images of the block are started together
ImageDownload_All ==
  /\ pc = "r_image"
  /\ loop.k <= Len(loop.images)
  /\ loop' = [loop EXCEPT !.inFlight = @ \cup (loop.k..Len(loop.images))]
  /\ pc' = "r_await"
  /\ UNCHANGED <<call, dl, entry, remote, mainVars, loadVars, data, ropts, ri,
                 markdown, allDownloadedImages, downloads, saveVars>>

\* the for loop calls downloadFile(url, token) for the image it is at
ImageDownload ==
  /\ pc = "r_image"
  /\ loop.k <= Len(loop.images)
  /\ loop' = [loop EXCEPT !.inFlight = @ \cup {loop.k}]
  /\ pc' = "r_await"
  /\ UNCHANGED <<call, dl, entry, remote, mainVars, loadVars, data, ropts, ri,
                 markdown, allDownloadedImages, downloads, saveVars>>

\* the awaited downloadFile settles, and the iteration runs to its end
ImageSettled ==
  /\ pc = "r_await"
  /\ \E fetch \in Fetches :
       LET got == downloadFile(loop.images[loop.k], ropts.token, fetch)
           it == Iteration(loop, ropts.imagesDir, got)
       IN /\ loop' = it.loop
          /\ downloads' = Append(downloads, got)
          /\ fsLog' = fsLog \o it.fsOps
  /\ pc' = "r_image"
  /\ UNCHANGED <<call, dl, entry, remote, mainVars, loadVars, data, ropts, ri,
                 markdown, allDownloadedImages, sopts>>

\* downloadImages returns; the block is appended with the content it returned
ImagesReturn ==
  /\ pc = "r_image"
  /\ loop.k > Len(loop.images)
  /\ markdown' = Append(markdown, [Blocks(data)[ri] EXCEPT !.body = loop.content])
  /\ allDownloadedImages' = allDownloadedImages \o loop.downloadedImages
  /\ ri' = ri + 1
  /\ loop' = NoLoop
  /\ pc' = "r_block"
  /\ UNCHANGED <<call, dl, entry, remote, mainVars, loadVars, data, ropts,
                 downloads, saveVars>>

\* generateCommitsMarkdown, generateFilesMarkdown and the return
RenderReturn ==
  /\ pc = "r_block"
  /\ ri > Len(Blocks(data))
  /\ markdown' = markdown \o
       << Block("Commits", "commits", 0, "", 0, data.commits, 0),
          Block("Files Changed", "files", 0, "", 0, data.files, 0) >>
  /\ pc' = AfterRender
  /\ UNCHANGED <<call, dl, entry, remote, mainVars, loadVars, data, ropts, ri,
                 allDownloadedImages, downloads, loop, saveVars>>

\* ------------------------------------------------------------------ render runs

MaxComments == 2

MaxReviews == 2

MaxTime == 2

SeqsUpTo(S, n) == UNION {[1..k -> S] : k \in 0..n}

Dataset(body, comments, reviews, reviewComments) ==
  [pr |-> [number |-> 7, title |-> "T", state |-> "open", merged |-> FALSE,
           user |-> "alice", body |-> body],
   files |-> <<"f1">>, comments |-> comments, reviewComments |-> reviewComments,
   reviews |-> reviews, commits |-> <<"c1">>]

\* datasets that differ in how many comments and reviews there are and when
\* each was made; a review submitted at 0 is pending
TimelineDatasets ==
  { Dataset(<<"text">>,
            [i \in 1..Len(cs) |-> Comment(i, "bob", <<"text">>, cs[i])],
            [i \in 1..Len(rs) |->
               Review(10 + i, "carol",
                      IF rs[i] = 0 THEN "PENDING" ELSE "APPROVED", <<>>, rs[i])],
            << ReviewComment(21, "carol", <<"text">>, 1, 11),
               ReviewComment(22, "dave", <<"text">>, 1, 0) >>)
    : cs \in SeqsUpTo(1..MaxTime, MaxComments),
      rs \in SeqsUpTo(0..MaxTime, MaxReviews) }

UrlA == <<"https://cdn.example/", "a">>

UrlB == <<"https://cdn.example/", "a", ".png">>

UrlG == <<"https://github.com/", "g", ".jpeg">>

Md(url) == <<"![x](">> \o url \o <<")">>

Html(url) == <<"<img src='">> \o url \o <<"'>">>

\* text blocks with images: one image, two images of which one URL starts with
\* the other, the same image twice, an image already localized, none
ImageBodies ==
  { Md(UrlG),
    <<"see">> \o Md(UrlA) \o <<" ">> \o Md(UrlB),
    Html(UrlB) \o <<" ">> \o Md(UrlA),
    Md(UrlA) \o <<" ">> \o Md(UrlA),
    Md(<<"./images/", "image-", "1", ".png">>),
    <<"text">>,
    <<>> }

\* a comment and an earlier review with an inline comment; the review is
\* submitted or pending, and the bodies hold images or none
ImageDatasets ==
  { Dataset(body,
            <<Comment(1, "bob", v[1], 2)>>,
            <<Review(11, "carol", IF v[3] = 0 THEN "PENDING" ELSE "APPROVED",
                     v[2], v[3])>>,
            <<ReviewComment(21, "carol", <<"text">>, 1, 11)>>)
    : body \in ImageBodies,
      v \in { <<<<"text">>, <<>>, 1>>, <<Html(UrlG), <<>>, 1>>,
              <<Html(UrlG), Md(UrlA), 1>>, <<<<"text">>, Md(UrlA), 0>> } }

ImagesDir == << <<"out">>, <<"images">> >>

InitRender ==
  /\ entry = "convertToMarkdown"
  /\ pc = "r_block"
  /\ \/ /\ data \in TimelineDatasets
        /\ ropts = [downloadImagesFlag |-> FALSE, imagesDir |-> ImagesDir,
                    token |-> "", prNumber |-> 7]
     \/ /\ data \in ImageDatasets
        /\ ropts \in [downloadImagesFlag : BOOLEAN, imagesDir : {ImagesDir},
                      token : {"", "tok"}, prNumber : {7}]
  /\ ri = 1
  /\ markdown = <<>>
  /\ allDownloadedImages = <<>>
  /\ downloads = <<>>
  /\ loop = NoLoop
  /\ remote \in {r \in RemotePRs : r.state = "open" /\ r.reviews = <<>>
                                   /\ r.reviewComments = <<>>}
  /\ opts = NoOpts
  /\ IdleMain /\ IdleLoad /\ IdleSave /\ IdleDownload /\ IdleCall

NextRender ==
  RenderBlock \/ ImageDownload \/ ImageSettled \/ ImagesReturn \/ RenderReturn

SpecRender == InitRender /\ [][NextRender]_vars

\* ------------------------------------------------------------------ savePullRequest

\* formatters.convertToJson(data, downloadedImages), as far as the model
\* carries fields
convertToJson(d, downloadedImages) ==
  [pullRequest |-> [number |-> d.pr.number, title |-> d.pr.title,
                    state |-> d.pr.state, merged |-> d.pr.merged,
                    author |-> d.pr.user, body |-> d.pr.body],
   commits |-> d.commits,
   files |-> d.files,
   reviews |-> [i \in 1..Len(d.reviews) |->
                  [id |-> d.reviews[i].id, author |-> d.reviews[i].user,
                   state |-> d.reviews[i].state, body |-> d.reviews[i].body,
                   submittedAt |-> d.reviews[i].submitted_at]],
   reviewComments |-> [i \in 1..Len(d.reviewComments) |->
                         [id |-> d.reviewComments[i].id,
                          author |-> d.reviewComments[i].user,
                          body |-> d.reviewComments[i].body,
                          createdAt |-> d.reviewComments[i].created_at,
                          reviewId |-> d.reviewComments[i].pull_request_review_id]],
   comments |-> [i \in 1..Len(d.comments) |->
                   [id |-> d.comments[i].id, author |-> d.comments[i].user,
                    body |-> d.comments[i].body,
                    createdAt |-> d.comments[i].created_at]],
   downloadedImages |-> [i \in 1..Len(downloadedImages) |->
                           [originalUrl |-> downloadedImages[i].originalUrl,
                            localPath |-> downloadedImages[i].relativePath,
                            format |-> downloadedImages[i].format]]]

\* the paths savePullRequest computes
prDirOf(o, d) == Join(o.outputDir, <<"pr-">> \o DecimalOf(d.pr.number))

imagesDirOf(o, d) == Join(prDirOf(o, d), <<"images">>)

mdPathOf(o, d) ==
  Join(prDirOf(o, d), <<"pr-">> \o DecimalOf(d.pr.number) \o <<".md">>)

jsonPathOf(o, d) ==
  Join(prDirOf(o, d), <<"pr-">> \o DecimalOf(d.pr.number) \o <<".json">>)

\* where control goes when savePullRequest returns
AfterSave == IF entry = "main" THEN "m_saved" ELSE "done"

\* savePullRequest up to the call of convertToMarkdown
SaveStart ==
  /\ pc = "s_start"
  /\ fsLog' = Append(fsLog, FsOp("ensureDir", prDirOf(sopts, data), <<>>, <<>>))
  /\ ropts' = [downloadImagesFlag |-> sopts.downloadImages,
               imagesDir |-> imagesDirOf(sopts, data),
               token |-> sopts.token, prNumber |-> data.pr.number]
  /\ ri' = 1
  /\ markdown' = <<>>
  /\ allDownloadedImages' = <<>>
  /\ pc' = "r_block"
  /\ UNCHANGED <<call, dl, entry, remote, mainVars, loadVars, data, downloads, loop,
                 sopts>>

\* savePullRequest from the return of convertToMarkdown on
SaveWrite ==
  /\ pc = "s_write"
  /\ fsLog' = fsLog \o
       << FsOp("writeFile", mdPathOf(sopts, data), <<>>, markdown),
          FsOp("writeFile", jsonPathOf(sopts, data), <<>>,
               <<convertToJson(data, allDownloadedImages)>>) >>
  /\ pc' = AfterSave
  /\ UNCHANGED <<call, dl, entry, remote, mainVars, loadVars, renderVars, sopts>>

OutputDir == << <<"out">> >>

InitSave ==
  /\ entry = "savePullRequest"
  /\ pc = "s_start"
  /\ data \in ImageDatasets
  /\ sopts \in [outputDir : {OutputDir}, format : {"markdown", "json"},
                downloadImages : BOOLEAN, token : {"", "tok"}]
  /\ ropts = NoRopts
  /\ fsLog = <<>>
  /\ remote \in {r \in RemotePRs : r.state = "open" /\ r.reviews = <<>>
                                   /\ r.reviewComments = <<>>}
  /\ opts = NoOpts
  /\ IdleMain /\ IdleLoad /\ IdleRender /\ IdleDownload /\ IdleCall

NextSave ==
  \/ SaveStart \/ SaveWrite
  \/ RenderBlock \/ ImageDownload \/ ImageSettled \/ ImagesReturn \/ RenderReturn

SpecSave == InitSave /\ [][NextSave]_vars

\* ------------------------------------------------------------------ parsePrUrl

\* Tokens of a pull request reference: "/" and "#" are themselves, "https://"
\* holds slashes, a digit token is one decimal digit, any other token is a run
\* of characters with none of these.
SlashTokens == {"/", "https://"}

HashTokens == {"#"}

DigitSet == {DigitTokens[i] : i \in 1..Len(DigitTokens)}

\* the end of the longest run of digits from position i on: (\d+)
RECURSIVE DigitsEnd(_, _)
DigitsEnd(url, i) ==
  IF i > Len(url) \/ url[i] \notin DigitSet THEN i - 1
  ELSE DigitsEnd(url, i + 1)

\* the value of the last digit alone
parseInt_LastDigit(digits) ==
  IF digits = <<>> THEN 0
  ELSE CHOOSE v \in 0..9 : DigitTokens[v + 1] = digits[Len(digits)]

\* parseInt(digits, 10)
RECURSIVE parseInt(_)
parseInt(digits) ==
  IF digits = <<>> THEN 0
  ELSE parseInt(SubSeq(digits, 1, Len(digits) - 1)) * 10
       + (CHOOSE v \in 0..9 : DigitTokens[v + 1] = digits[Len(digits)])

\* what parsePrUrl returns when no pattern matches
NullPrInfo == [owner |-> <<>>, repo |-> <<>>, prNumber |-> 0]

\* /github\.com\/([^/]+)\/([^/]+)\/pull\/(\d+)/ tried at position i
urlMatch(url, i) ==
  LET oe == RunEnd(url, i + 2, SlashTokens)
      re == RunEnd(url, oe + 2, SlashTokens)
      de == DigitsEnd(url, re + 4)
  IN IF /\ i + 1 <= Len(url) /\ url[i] = "github.com" /\ url[i + 1] = "/"
        /\ oe >= i + 2 /\ oe + 1 <= Len(url) /\ url[oe + 1] = "/"
        /\ re >= oe + 2 /\ re + 3 <= Len(url)
        /\ url[re + 1] = "/" /\ url[re + 2] = "pull" /\ url[re + 3] = "/"
        /\ de >= re + 4
     THEN [owner |-> SubSeq(url, i + 2, oe), repo |-> SubSeq(url, oe + 2, re),
           prNumber |-> parseInt(SubSeq(url, re + 4, de))]
     ELSE NullPrInfo

\* the shorthand patterns with (\d*) for (\d+)
anchoredMatch_NoDigits(url, sep, repoStops) ==
  LET oe == RunEnd(url, 1, SlashTokens)
      re == RunEnd(url, oe + 2, repoStops)
      de == DigitsEnd(url, re + 2)
  IN IF /\ oe >= 1 /\ oe + 1 <= Len(url) /\ url[oe + 1] = "/"
        /\ re >= oe + 2 /\ re + 1 <= Len(url) /\ url[re + 1] = sep
        /\ de = Len(url)
     THEN [owner |-> SubSeq(url, 1, oe), repo |-> SubSeq(url, oe + 2, re),
           prNumber |-> parseInt(SubSeq(url, re + 2, de))]
     ELSE NullPrInfo

\* /^([^/]+)\/([^#/]+)#(\d+)$/ with sep "#" and the repo free of "#", and
\* /^([^/]+)\/([^/]+)\/(\d+)$/ with sep "/"
anchoredMatch(url, sep, repoStops) ==
  LET oe == RunEnd(url, 1, SlashTokens)
      re == RunEnd(url, oe + 2, repoStops)
      de == DigitsEnd(url, re + 2)
  IN IF /\ oe >= 1 /\ oe + 1 <= Len(url) /\ url[oe + 1] = "/"
        /\ re >= oe + 2 /\ re + 1 <= Len(url) /\ url[re + 1] = sep
        /\ de >= re + 2 /\ de = Len(url)
     THEN [owner |-> SubSeq(url, 1, oe), repo |-> SubSeq(url, oe + 2, re),
           prNumber |-> parseInt(SubSeq(url, re + 2, de))]
     ELSE NullPrInfo

parsePrUrl(url) ==
  LET hits == {i \in 1..Len(url) : urlMatch(url, i) # NullPrInfo}
      shortMatch == anchoredMatch(url, "#", SlashTokens \cup HashTokens)
      altMatch == anchoredMatch(url, "/", SlashTokens)
  IN IF hits # {}
     THEN urlMatch(url, CHOOSE i \in hits : \A j \in hits : i <= j)
     ELSE IF shortMatch # NullPrInfo THEN shortMatch
     ELSE altMatch

\* ------------------------------------------------------------------ main

\* parseCliArgs: what yargs makes of the command line; --token defaults to
\* process.env.GITHUB_TOKEN. flagToken and envToken keep the two inputs.
parseCliArgs(cli) ==
  [pr |-> cli.pr,
   token |-> IF cli.flagToken # None THEN cli.flagToken ELSE cli.envToken,
   output |-> cli.output, downloadImages |-> cli.downloadImages,
   includeReviews |-> cli.includeReviews, format |-> cli.format,
   forceApi |-> cli.forceApi, forceGh |-> cli.forceGh,
   flagToken |-> cli.flagToken, envToken |-> cli.envToken]

\* the result of `gh auth token`; `by` carries what it printed, trimmed
Printed(s) == [status |-> "ok", data |-> NoData, error |-> NoError, by |-> s]

\* how getGhToken can go: gh missing, the command failing, or the command
\* printing nothing or a token
GhTokenOutcomes == {"not installed", "failed", "", "G"}

\* getGhToken(): the commands it runs and what it returns
getGhToken(outcome) ==
  IF outcome = "not installed"
  THEN [ran |-> <<Call("gh --version", NoArgs, <<>>, Answer("false"))>>,
        token |-> None]
  ELSE [ran |-> << Call("gh --version", NoArgs, <<>>, Answer("true")),
                   Call("gh auth token", NoArgs, <<>>,
                        IF outcome = "failed" THEN Answer("error")
                        ELSE Printed(outcome)) >>,
        token |-> IF outcome = "failed" THEN None ELSE outcome]

BothFlagsError == "Cannot use both --force-api and --force-gh at the same time"

\* mutant: the reference is parsed before the flags are validated
MainStart_ParseFirst ==
  /\ pc = "m_start"
  /\ prInfo' = parsePrUrl(argv.pr)
  /\ IF argv.forceApi /\ argv.forceGh
     THEN /\ logs' = Append(logs, BothFlagsError)
          /\ exitCode' = 1
          /\ pc' = "done"
          /\ UNCHANGED token
     ELSE IF prInfo' = NullPrInfo
     THEN /\ logs' = Append(logs, "Invalid PR URL or format")
          /\ exitCode' = 1
          /\ pc' = "done"
          /\ UNCHANGED token
     ELSE /\ token' = argv.token
          /\ pc' = "m_token"
          /\ UNCHANGED <<logs, exitCode>>
  /\ UNCHANGED <<call, dl, entry, remote, argv, stdout, loadVars, renderVars, saveVars>>

\* main up to `let token = tokenArg`
MainStart ==
  /\ pc = "m_start"
  /\ IF argv.forceApi /\ argv.forceGh
     THEN /\ logs' = Append(logs, BothFlagsError)
          /\ exitCode' = 1
          /\ pc' = "done"
          /\ UNCHANGED <<prInfo, token>>
     ELSE /\ prInfo' = parsePrUrl(argv.pr)
          /\ IF prInfo' = NullPrInfo
             THEN /\ logs' = Append(logs, "Invalid PR URL or format")
                  /\ exitCode' = 1
                  /\ pc' = "done"
                  /\ UNCHANGED token
             ELSE /\ token' = argv.token
                  /\ pc' = "m_token"
                  /\ UNCHANGED <<logs, exitCode>>
  /\ UNCHANGED <<call, dl, entry, remote, argv, stdout, loadVars, renderVars, saveVars>>

\* the options main calls loadPullRequest with
MainLoadOptions(tok) ==
  [owner |-> prInfo.owner, repo |-> prInfo.repo, prNumber |-> prInfo.prNumber,
   token |-> tok, includeReviews |-> argv.includeReviews,
   forceApi |-> argv.forceApi, forceGh |-> argv.forceGh]

\* the gh token lookup and the call of loadPullRequest
MainToken ==
  /\ pc = "m_token"
  /\ IF argv.forceApi \/ token = None \/ token = ""
     THEN \E outcome \in GhTokenOutcomes :
            LET got == getGhToken(outcome)
            IN /\ calls' = calls \o got.ran
               /\ token' = IF got.token # None /\ got.token # ""
                           THEN got.token ELSE token
     ELSE UNCHANGED <<calls, token>>
  /\ opts' = MainLoadOptions(token')
  /\ pc' = "l_start"
  /\ UNCHANGED <<call, dl, entry, remote, argv, prInfo, exitCode, logs, stdout, ghError,
                 loaded, renderVars, saveVars>>

\* main after `await loadPullRequest(...)`: the catch block, or the choice of
\* the output
MainLoaded ==
  /\ pc = "m_loaded"
  /\ IF loaded.status = "error"
     THEN /\ logs' = Append(logs, loaded.error.msg)
          /\ exitCode' = 1
          /\ pc' = "done"
          /\ UNCHANGED <<stdout, data, ropts, ri, sopts>>
     ELSE /\ data' = loaded.data
          /\ IF argv.output # <<>>
             THEN /\ sopts' = [outputDir |-> argv.output, format |-> argv.format,
                               downloadImages |-> argv.downloadImages,
                               token |-> token]
                  /\ pc' = "s_start"
                  /\ UNCHANGED <<stdout, exitCode, logs, ropts, ri>>
             ELSE IF argv.format = "json"
             THEN /\ stdout' = <<convertToJson(data', <<>>)>>
                  /\ logs' = Append(logs, "Done!")
                  /\ exitCode' = 0
                  /\ pc' = "done"
                  /\ UNCHANGED <<ropts, ri, sopts>>
             ELSE /\ ropts' = [downloadImagesFlag |-> FALSE, imagesDir |-> <<>>,
                               token |-> "", prNumber |-> prInfo.prNumber]
                  /\ ri' = 1
                  /\ pc' = "r_block"
                  /\ UNCHANGED <<stdout, exitCode, logs, sopts>>
  /\ UNCHANGED <<call, dl, entry, remote, argv, token, prInfo, loadVars, markdown,
                 allDownloadedImages, downloads, loop, fsLog>>

\* console.log(markdown) and the end of main
MainPrint ==
  /\ pc = "m_print"
  /\ stdout' = markdown
  /\ logs' = Append(logs, "Done!")
  /\ exitCode' = 0
  /\ pc' = "done"
  /\ UNCHANGED <<call, dl, entry, remote, argv, token, prInfo, loadVars, renderVars, saveVars>>

\* the end of main after savePullRequest
MainSaved ==
  /\ pc = "m_saved"
  /\ logs' = Append(logs, "Done!")
  /\ exitCode' = 0
  /\ pc' = "done"
  /\ UNCHANGED <<call, dl, entry, remote, argv, token, prInfo, stdout, loadVars,
                 renderVars, saveVars>>

\* command lines: a reference in URL form, in shorthand form and one that is
\* none; a token given with --token, in GITHUB_TOKEN, both or neither
CommandLines ==
  [pr : { <<"https://", "github.com", "/", "o", "/", "r", "/", "pull", "/", "7">>,
          <<"o", "/", "r", "#", "7">>,
          <<"o", "/", "r">> },
   flagToken : {None, "T"}, envToken : {None, "E"},
   output : {<<>>, OutputDir}, downloadImages : BOOLEAN,
   includeReviews : BOOLEAN, format : {"markdown", "json"},
   forceApi : BOOLEAN, forceGh : BOOLEAN]

\* the pull request the command lines name: its description holds an image on
\* a GitHub host
MainRemotes ==
  { [number |-> 7, title |-> "T", state |-> "open", merged |-> FALSE,
     user |-> "alice", body |-> Md(UrlG),
     files |-> <<"f1">>, commits |-> <<"c1">>,
     comments |-> <<Comment(1, "bob", <<"text">>, 2)>>,
     reviews |-> <<>>,
     reviewComments |-> <<>>] }

InitMain ==
  /\ entry = "main"
  /\ pc = "m_start"
  /\ argv \in {parseCliArgs(cli) : cli \in CommandLines}
  /\ remote \in MainRemotes
  /\ token = None
  /\ prInfo = NoPrInfo
  /\ exitCode = -1
  /\ logs = <<>>
  /\ stdout = <<>>
  /\ opts = NoOpts
  /\ data = NoData
  /\ ropts = NoRopts
  /\ IdleLoad /\ IdleRender /\ IdleSave /\ IdleDownload /\ IdleCall

NextMain ==
  \/ MainStart \/ MainToken
  \/ LoadStart \/ LoadAuth \/ LoadWithGh \/ LoadWithApi
  \/ MainLoaded
  \/ SaveStart \/ SaveWrite
  \/ RenderBlock \/ ImageDownload \/ ImageSettled \/ ImagesReturn \/ RenderReturn
  \/ MainPrint \/ MainSaved

SpecMain == InitMain /\ [][NextMain]_vars

\* ------------------------------------------------------------------ downloadFile

\* the default of downloadFile's maxRedirects parameter
DefaultMaxRedirects == 5

\* an HTTP response: its status, its Location header (<<>>: none) and its body
Response(status, location, body) ==
  [status |-> status, location |-> location, body |-> body]

\* the token sent to every host
Authorization_AnyHost(url, tok) ==
  IF tok # "" /\ tok # None THEN tok ELSE None

\* the Authorization header downloadFile sends to url, None when it sends none:
\* token && parsedUrl.hostname.includes('github')
Authorization(url, tok) ==
  IF tok # "" /\ tok # None /\ url[1] = GitHubHost THEN tok ELSE None

\* new Error(`HTTP ${res.statusCode}`)
HttpError(status) ==
  CASE status = 201 -> "HTTP 201"
    [] status = 302 -> "HTTP 302"
    [] status = 404 -> "HTTP 404"
    [] OTHER -> "HTTP error"

\* res.statusCode >= 300 && res.statusCode < 400 && res.headers.location
IsFollowed(res) == res.status >= 300 /\ res.status < 400 /\ res.location # <<>>

\* the largest chunk a 'data' event delivers
MaxChunk == 4

\* Buffer.concat(chunks)
RECURSIVE concat(_)
concat(chunks) ==
  IF chunks = <<>> THEN <<>> ELSE chunks[1] \o concat(Tail(chunks))

\* resolve or reject of every promise settling it, called before or not
Settle_Always(d, i, outcome) ==
  [d EXCEPT !.called = @ \cup {i}, !.result = outcome, !.settles = @ + 1]

\* resolve(value) or reject(error) of the promise of the i-th call: only the
\* first call of either function of a promise has an effect; the promises of
\* the calls before have adopted it, so the promise the caller holds settles
Settle(d, i, outcome) ==
  IF i \in d.called THEN d
  ELSE [d EXCEPT !.called = @ \cup {i}, !.result = outcome, !.settles = @ + 1]

\* resolve(downloadFile(...)) of the promise of the i-th call: it adopts the
\* promise of the next call
Adopt(d, i) == IF i \in d.called THEN d ELSE [d EXCEPT !.called = @ \cup {i}]

\* the promise executor of the call after Len(d.requests) requests: the
\* redirect limit, new URL(url) and protocol.get(url, { headers }, ...)
Executor(d) ==
  LET i == Len(d.requests) + 1
  IN IF d.maxRedirects <= 0
     THEN [dl |-> Settle(d, i, FetchFailed("Too many redirects")), pc |-> "done"]
     ELSE IF d.url[1] \notin Hosts
     THEN [dl |-> Settle(d, i, FetchFailed("Invalid URL")), pc |-> "done"]
     ELSE [dl |-> [d EXCEPT !.requests =
                      Append(@, [url |-> d.url,
                                 auth |-> Authorization(d.url, d.token)]),
                    !.phase = Append(@, "waiting")],
           pc |-> "d_wait"]

\* downloadFile(url, token, maxRedirects) as its caller calls it
DlExecutor ==
  /\ pc = "d_call"
  /\ dl' = Executor(dl).dl
  /\ pc' = Executor(dl).pc
  /\ UNCHANGED <<call, entry, remote, mainVars, loadVars, renderVars, saveVars>>

\* the request the call is waiting on
Live(i) == i = Len(dl.requests) /\ pc \in {"d_wait", "d_body"}

\* the response callback following a redirect with maxRedirects unchanged
DlResponse_NoCountdown ==
  /\ pc = "d_wait"
  /\ Len(dl.requests) <= Len(dl.script)
  /\ LET n == Len(dl.requests)
         res == dl.script[n]
     IN IF IsFollowed(res)
        THEN LET next == Executor(Adopt([dl EXCEPT !.phase[n] = "unread",
                                                   !.url = res.location], n))
             IN dl' = next.dl /\ pc' = next.pc
        ELSE IF res.status # 200
        THEN /\ dl' = Settle([dl EXCEPT !.phase[n] = "unread"], n,
                             FetchFailed(HttpError(res.status)))
             /\ pc' = "done"
        ELSE /\ dl' = [dl EXCEPT !.phase[n] = "body", !.chunks = <<>>]
             /\ pc' = "d_body"
  /\ UNCHANGED <<call, entry, remote, mainVars, loadVars, renderVars, saveVars>>

\* the response callback: the server answers the n-th request with the n-th
\* response of its script. A followed redirect calls downloadFile again, whose
\* executor runs before the callback returns.
DlResponse ==
  /\ pc = "d_wait"
  /\ Len(dl.requests) <= Len(dl.script)
  /\ LET n == Len(dl.requests)
         res == dl.script[n]
     IN IF IsFollowed(res)
        THEN LET next == Executor(Adopt([dl EXCEPT !.phase[n] = "unread",
                                                   !.url = res.location,
                                                   !.maxRedirects = @ - 1], n))
             IN dl' = next.dl /\ pc' = next.pc
        ELSE IF res.status # 200
        THEN /\ dl' = Settle([dl EXCEPT !.phase[n] = "unread"], n,
                             FetchFailed(HttpError(res.status)))
             /\ pc' = "done"
        ELSE /\ dl' = [dl EXCEPT !.phase[n] = "body", !.chunks = <<>>]
             /\ pc' = "d_body"
  /\ UNCHANGED <<call, entry, remote, mainVars, loadVars, renderVars, saveVars>>

\* res.on('data', (chunk) => chunks.push(chunk))
DlData ==
  /\ pc = "d_body"
  /\ LET body == dl.script[Len(dl.requests)].body
         got == Len(concat(dl.chunks))
         upto == IF got + MaxChunk < Len(body) THEN got + MaxChunk ELSE Len(body)
     IN /\ got < Len(body)
        /\ dl' = [dl EXCEPT !.chunks = Append(@, SubSeq(body, got + 1, upto))]
  /\ UNCHANGED <<call, entry, pc, remote, mainVars, loadVars, renderVars, saveVars>>

\* the 'end' handler resolving with the last chunk alone
DlEnd_LastChunk ==
  /\ pc = "d_body"
  /\ LET n == Len(dl.requests)
     IN /\ Len(concat(dl.chunks)) = Len(dl.script[n].body)
        /\ dl' = Settle([dl EXCEPT !.phase[n] = "ended"], n,
                        Fetched(dl.chunks[Len(dl.chunks)]))
  /\ pc' = "done"
  /\ UNCHANGED <<call, entry, remote, mainVars, loadVars, renderVars, saveVars>>

\* res.on('end', () => resolve(Buffer.concat(chunks)))
DlEnd ==
  /\ pc = "d_body"
  /\ LET n == Len(dl.requests)
     IN /\ Len(concat(dl.chunks)) = Len(dl.script[n].body)
        /\ dl' = Settle([dl EXCEPT !.phase[n] = "ended"], n,
                        Fetched(concat(dl.chunks)))
  /\ pc' = "done"
  /\ UNCHANGED <<call, entry, remote, mainVars, loadVars, renderVars, saveVars>>

\* req.on('error', reject) and res.on('error', reject): the socket of any
\* request not yet destroyed can fail, that of an earlier hop too
DlSocketError ==
  /\ entry = "downloadFile"
  /\ \E i \in 1..Len(dl.requests) :
       /\ dl.phase[i] # "destroyed"
       /\ dl' = Settle([dl EXCEPT !.phase[i] = "destroyed"], i,
                       FetchFailed("socket hang up"))
       /\ pc' = IF Live(i) THEN "done" ELSE pc
  /\ UNCHANGED <<call, entry, remote, mainVars, loadVars, renderVars, saveVars>>

\* req.setTimeout(30000, () => { req.destroy(); reject(...) }): the timer of
\* any request not yet destroyed can fire, that of an earlier hop too
DlTimeout ==
  /\ entry = "downloadFile"
  /\ \E i \in 1..Len(dl.requests) :
       /\ dl.phase[i] # "destroyed"
       /\ dl' = Settle([dl EXCEPT !.phase[i] = "destroyed"], i,
                       FetchFailed("Request timeout"))
       /\ pc' = IF Live(i) THEN "done" ELSE pc
  /\ UNCHANGED <<call, entry, remote, mainVars, loadVars, renderVars, saveVars>>

\* the longest chain of redirects a script holds
MaxHops == 6

\* the responses that end a chain: a body, statuses that are neither 200 nor a
\* followed redirect, and a redirect to a Location that is no absolute URL
LastResponses ==
  { Response(200, <<>>, PngBytes), Response(201, <<>>, PngBytes),
    Response(404, <<>>, HtmlBytes), Response(302, <<>>, <<>>),
    Response(302, <<"/", "a">>, <<>>) }

RedirectTo(host) == Response(302, <<host, "a">>, <<>>)

\* the hosts of a chain of k redirects: one host throughout, or the two hosts
\* in turn
HopHosts(k) ==
  { [i \in 1..k |-> IF i % 2 = 1 THEN first ELSE second]
    : first \in Hosts, second \in Hosts }

\* what a server can do with the successive requests: redirect k times and
\* then answer, or redirect on and on
Scripts ==
  UNION { { [i \in 1..k |-> RedirectTo(hosts[i])] \o <<last>> :
              hosts \in HopHosts(k), last \in LastResponses }
          : k \in 0..MaxHops }
  \cup { [i \in 1..MaxHops |-> RedirectTo(hosts[i])] : hosts \in HopHosts(MaxHops) }

\* the maxRedirects a call is made with: the default, and smaller ones a
\* caller passes; limit keeps it while maxRedirects counts down
Limits == {0, 2, DefaultMaxRedirects}

InitDownload ==
  /\ entry = "downloadFile"
  /\ pc = "d_call"
  /\ dl \in { [url |-> <<h, "a">>, token |-> tok, maxRedirects |-> n, limit |-> n,
               script |-> script, requests |-> <<>>, phase |-> <<>>,
               chunks |-> <<>>, called |-> {}, settles |-> 0, result |-> Unsettled]
             : h \in Hosts, tok \in {"", "tok"}, n \in Limits, script \in Scripts }
  /\ remote \in {r \in RemotePRs : r.state = "open" /\ r.reviews = <<>>
                                   /\ r.reviewComments = <<>>}
  /\ opts = NoOpts
  /\ data = NoData
  /\ ropts = NoRopts
  /\ IdleMain /\ IdleLoad /\ IdleRender /\ IdleSave /\ IdleCall

NextDownload ==
  DlExecutor \/ DlResponse \/ DlData \/ DlEnd \/ DlSocketError \/ DlTimeout

SpecDownload == InitDownload /\ [][NextDownload]_vars

\* the executor runs as soon as downloadFile is called, and while a request
\* waits its 30 second timer is armed: a step is always taken
SpecDownloadFair == SpecDownload /\ WF_vars(NextDownload)

\* ------------------------------------------------------------------ direct calls

\* the longest tail that follows a signature prefix in a validated buffer
MaxTail == 3

\* every proper or full prefix of s, the empty one included
PrefixesOf(s) == {SubSeq(s, 1, n) : n \in 0..Len(s)}

\* the byte patterns validateImageBuffer looks for
Signatures ==
  {imageMagicBytes[i].magic : i \in 1..Len(imageMagicBytes)}
  \cup htmlMarkers \cup {svgMarker}

\* bytes that follow a prefix: 1 belongs to no pattern at that place, 33 is
\* '!', 60 is '<' and 108 is 'l'
TailBytes == {1, 33, 60, 108}

\* the buffers handed to validateImageBuffer: a prefix of a pattern and a tail
Buffers ==
  { head \o tail :
      head \in UNION {PrefixesOf(s) : s \in Signatures},
      tail \in UNION {[1..n -> TailBytes] : n \in 0..MaxTail} }

\* validateImageBuffer(buffer, url) called directly
CallValidate ==
  /\ entry = "validateImageBuffer"
  /\ pc = "call"
  /\ call' = [call EXCEPT !.result = validateImageBuffer(call.arg)]
  /\ pc' = "done"
  /\ UNCHANGED <<dl, entry, remote, mainVars, loadVars, renderVars, saveVars>>

InitValidate ==
  /\ entry = "validateImageBuffer"
  /\ pc = "call"
  /\ call \in [arg : Buffers, result : {"none"}]
  /\ remote \in {r \in RemotePRs : r.state = "open" /\ r.reviews = <<>>
                                   /\ r.reviewComments = <<>>}
  /\ opts = NoOpts
  /\ data = NoData
  /\ ropts = NoRopts
  /\ IdleMain /\ IdleLoad /\ IdleRender /\ IdleSave /\ IdleDownload

NextValidate == CallValidate

SpecValidate == InitValidate /\ [][NextValidate]_vars

\* the longest reference made of arbitrary tokens
MaxRefLen == 5

\* owners and repository names: runs of characters with no "/" and no "#"
Names == { <<"o">>, <<"r">>, <<"pull">>, <<"github.com">>, <<"o", "7">>, <<"7">> }

\* decimal numbers as written and their values
Numbers ==
  { [digits |-> <<"7">>, value |-> 7], [digits |-> <<"1", "2">>, value |-> 12],
    [digits |-> <<"0", "7">>, value |-> 7], [digits |-> <<"0">>, value |-> 0] }

\* https://github.com/o/r/pull/n
FullUrl(o, r, n) ==
  <<"https://", "github.com", "/">> \o o \o <<"/">> \o r \o <<"/", "pull", "/">> \o n

\* o/r#n
Shorthand(o, r, n) == o \o <<"/">> \o r \o <<"#">> \o n

\* o/r/n
SlashShorthand(o, r, n) == o \o <<"/">> \o r \o <<"/">> \o n

\* the references parsePrUrl is called with: the three documented forms, every
\* short sequence of tokens, and strings shaped like a pull request URL with a
\* part missing, misplaced or followed by more
References ==
  { FullUrl(o, r, n.digits) : o \in Names, r \in Names, n \in Numbers }
  \cup { Shorthand(o, r, n.digits) : o \in Names, r \in Names, n \in Numbers }
  \cup { SlashShorthand(o, r, n.digits) : o \in Names, r \in Names, n \in Numbers }
  \cup UNION { [1..n -> {"/", "#", "o", "7", "pull"}] : n \in 0..MaxRefLen }
  \cup { scheme \o <<"github.com", "/">> \o o \o <<"/">> \o r \o <<"/">> \o p
           \o <<"/">> \o n \o rest :
           scheme \in { <<>>, <<"https://">>, <<"o", "/">> },
           o \in { <<"o">>, <<>>, <<"o", "#">> },
           r \in { <<"r">>, <<>>, <<"pull">> },
           p \in { <<"pull">>, <<"issues">> },
           n \in { <<"7">>, <<"1", "2">>, <<"x">>, <<>>, <<"7", "x">> },
           rest \in { <<>>, <<"/", "files">>, <<"#", "x">> } }

\* parsePrUrl(url) called directly
CallParse ==
  /\ entry = "parsePrUrl"
  /\ pc = "call"
  /\ call' = [call EXCEPT !.result = parsePrUrl(call.arg)]
  /\ pc' = "done"
  /\ UNCHANGED <<dl, entry, remote, mainVars, loadVars, renderVars, saveVars>>

InitParse ==
  /\ entry = "parsePrUrl"
  /\ pc = "call"
  /\ call \in [arg : References, result : {"none"}]
  /\ remote \in {r \in RemotePRs : r.state = "open" /\ r.reviews = <<>>
                                   /\ r.reviewComments = <<>>}
  /\ opts = NoOpts
  /\ data = NoData
  /\ ropts = NoRopts
  /\ IdleMain /\ IdleLoad /\ IdleRender /\ IdleSave /\ IdleDownload

NextParse == CallParse

SpecParse == InitParse /\ [][NextParse]_vars

\* ================================================================== claims

Idx(op) == {i \in 1..Len(calls) : calls[i].op = op}

GhCalls == Idx("loadPullRequestWithGh")

ApiCalls == Idx("loadPullRequestWithApi")

Said(op, answer) == \E i \in Idx(op) : calls[i].result.status = answer

Settled == loaded.status # "none"

\* why the selector may turn to the API adapter when no backend is forced
FallbackReason ==
  \/ Said("gh --version", "false")
  \/ Said("gh auth status", "false")
  \/ Said("loadPullRequestWithGh", "error")

\* C1: with neither forceApi nor forceGh, the CLI adapter runs at most once, only
\* after both probes succeeded and before any API adapter call; the API adapter
\* runs exactly once iff gh is not installed, not authenticated or the CLI
\* adapter failed, with the caller's owner/repo/prNumber/includeReviews, never
\* after a CLI success; and the load fails only with the API adapter's failure.
C1_DefaultFallback ==
  (~opts.forceApi /\ ~opts.forceGh) =>
    /\ Cardinality(GhCalls) <= 1
    /\ Cardinality(ApiCalls) <= 1
    /\ \A g \in GhCalls :
         /\ \E i \in Idx("gh --version") : i < g /\ calls[i].result.status = "true"
         /\ \E i \in Idx("gh auth status") : i < g /\ calls[i].result.status = "true"
         /\ \A a \in ApiCalls : g < a
         /\ calls[g].result.status = "ok" => ApiCalls = {}
    /\ \A a \in ApiCalls :
         /\ FallbackReason
         /\ calls[a].args.owner = opts.owner
         /\ calls[a].args.repo = opts.repo
         /\ calls[a].args.prNumber = opts.prNumber
         /\ calls[a].args.includeReviews = opts.includeReviews
    /\ Settled =>
         /\ (Cardinality(ApiCalls) = 1) <=> FallbackReason
         /\ loaded.status = "error" =>
              \E a \in ApiCalls : calls[a].result.status = "error"
                                  /\ loaded = calls[a].result

\* the CLI adapter failed and the API adapter then delivered the dataset
C1_Witness ==
  /\ ~opts.forceApi /\ ~opts.forceGh
  /\ Said("loadPullRequestWithGh", "error")
  /\ loaded.status = "ok" /\ loaded.by = "api"

\* C2: with forceGh and not forceApi the API adapter is never invoked; the load
\* fails with the not-installed error when the version probe fails, with the
\* not-authenticated error when the auth probe fails, and otherwise its outcome
\* is the CLI adapter's outcome, dataset or failure, unchanged.
C2_ForceGh ==
  (opts.forceGh /\ ~opts.forceApi) =>
    /\ ApiCalls = {}
    /\ \A i \in 1..Len(calls) : calls[i].op \notin Range(ApiEndpoints(TRUE))
    /\ Settled =>
         IF Said("gh --version", "false")
         THEN loaded = Failed(NotInstalledError, "")
         ELSE IF Said("gh auth status", "false")
         THEN loaded = Failed(NotAuthenticatedError, "")
         ELSE Cardinality(GhCalls) = 1
              /\ \A g \in GhCalls : loaded = calls[g].result

\* a CLI adapter failure propagated to the caller under forceGh
C2_Witness ==
  /\ opts.forceGh /\ ~opts.forceApi
  /\ Said("loadPullRequestWithGh", "error")
  /\ loaded.status = "error" /\ loaded.by = "gh"

\* C3: with forceApi, whatever forceGh is, no probe and no CLI adapter call is
\* made, the API adapter is invoked exactly once, and the load's outcome is the
\* API adapter's outcome.
C3_ForceApi ==
  opts.forceApi =>
    /\ Idx("gh --version") = {} /\ Idx("gh auth status") = {}
    /\ GhCalls = {} /\ Idx("gh pr view") = {}
    /\ Cardinality(ApiCalls) <= 1
    /\ Settled => /\ Cardinality(ApiCalls) = 1
                  /\ \A a \in ApiCalls : loaded = calls[a].result

\* forceApi together with forceGh, settled by the API adapter
C3_Witness ==
  /\ opts.forceApi /\ opts.forceGh
  /\ Settled /\ loaded.by = "api" /\ ApiCalls # {}

\* C7: with includeReviews = false neither adapter retrieves reviews (no
\* "reviews" field requested from gh, no list-reviews request) and every dataset
\* an adapter or loadPullRequest returns has an empty reviews sequence.
C7_NoReviewRetrieval ==
  ~opts.includeReviews =>
    /\ Idx("pulls.listReviews") = {}
    /\ \A i \in Idx("gh pr view") : "reviews" \notin Range(calls[i].requested)
    /\ \A i \in GhCalls \cup ApiCalls :
         calls[i].result.status = "ok" => calls[i].result.data.reviews = <<>>
    /\ loaded.status = "ok" => loaded.data.reviews = <<>>

\* a pull request that has reviews, loaded without them through the fallback
C7_Witness ==
  /\ ~opts.includeReviews /\ remote.reviews # <<>>
  /\ GhCalls # {} /\ ApiCalls # {}
  /\ loaded.status = "ok" /\ loaded.data.reviews = <<>>

\* the Conversation section of the document: its comment and review entries
Conversation ==
  SelectSeq(markdown, LAMBDA b : b.section = "Conversation"
                                 /\ b.kind \in {"comment", "review"})

\* where a Conversation entry stood before sorting: the comments in dataset
\* order, then the reviews in dataset order
PushIndex(b) ==
  IF b.kind = "comment"
  THEN CHOOSE i \in 1..Len(data.comments) : data.comments[i].id = b.id
  ELSE Len(data.comments)
       + CHOOSE i \in 1..Len(data.reviews) : data.reviews[i].id = b.id

\* convertToMarkdown has returned
Rendered == ri > Len(Blocks(data)) /\ pc # "r_block"

\* C5: the comment and review entries of the Conversation section stand in
\* non-decreasing timestamp order, and two entries of equal timestamp stand in
\* the order they had before sorting.
C5_TimelineOrder ==
  \A i, j \in 1..Len(Conversation) :
    i < j =>
      /\ Conversation[i].at <= Conversation[j].at
      /\ Conversation[i].at = Conversation[j].at =>
           PushIndex(Conversation[i]) < PushIndex(Conversation[j])

\* a finished document where a review precedes a later comment and two
\* comments share a timestamp with a review
C5_Witness ==
  /\ Rendered
  /\ \E i, j \in 1..Len(Conversation) :
       /\ i < j
       /\ Conversation[i].kind = "review" /\ Conversation[j].kind = "comment"
       /\ Conversation[i].at < Conversation[j].at
  /\ \E i, j \in 1..Len(Conversation) :
       /\ i < j
       /\ Conversation[i].kind = "comment" /\ Conversation[j].kind = "comment"
       /\ Conversation[i].at = Conversation[j].at

\* how many entries of the Conversation section show the comment or review id
Shown(kind, id) ==
  Cardinality({i \in 1..Len(Conversation) :
                 Conversation[i].kind = kind /\ Conversation[i].id = id})

\* C6: a review without submitted_at is never an entry of the Conversation
\* section; no comment or review is an entry twice, and once the document is
\* returned every comment and every submitted review is an entry exactly once.
C6_PendingNeverShown ==
  /\ \A i \in 1..Len(data.reviews) :
       IF data.reviews[i].submitted_at = 0
       THEN Shown("review", data.reviews[i].id) = 0
       ELSE /\ Shown("review", data.reviews[i].id) <= 1
            /\ Rendered => Shown("review", data.reviews[i].id) = 1
  /\ \A i \in 1..Len(data.comments) :
       /\ Shown("comment", data.comments[i].id) <= 1
       /\ Rendered => Shown("comment", data.comments[i].id) = 1
  /\ Len(Conversation) <= Len(data.comments) + Len(data.reviews)

\* a finished document of a dataset with a pending and a submitted review
C6_Witness ==
  /\ Rendered
  /\ \E i, j \in 1..Len(data.reviews) :
       /\ data.reviews[i].submitted_at = 0
       /\ data.reviews[j].submitted_at # 0
       /\ Shown("review", data.reviews[j].id) = 1
  /\ Len(data.comments) > 0

\* the images of the k-th text block as the dataset holds it
ImagesOf(k) ==
  IF ropts.downloadImagesFlag
  THEN extractMarkdownImageUrls(Blocks(data)[k].body) ELSE <<>>

\* how many downloads the blocks before the k-th made
RECURSIVE DownloadsBefore(_)
DownloadsBefore(k) ==
  IF k <= 1 THEN 0 ELSE DownloadsBefore(k - 1) + Len(ImagesOf(k - 1))

NotLocalized(attempt) ==
  attempt.result.error # "" \/ ~validateImageBuffer(attempt.result.bytes).valid

\* C9: in every rendered text block, an image whose URL no download of that
\* block localized (each fetch of it failed or was rejected by the validator) is
\* still referenced by its original URL.
C9_FailedImageKeepsUrl ==
  \A k \in 1..Len(markdown) :
    k <= Len(Blocks(data)) =>
      LET urls == ImagesOf(k)
          base == DownloadsBefore(k)
          now == extractMarkdownImageUrls(markdown[k].body)
      IN \A i \in 1..Len(urls) :
           (\A j \in 1..Len(urls) :
              urls[j] = urls[i] => NotLocalized(downloads[base + j]))
           => /\ Len(now) = Len(urls)
              /\ now[i] = urls[i]

\* the file-system operations `op` made on `path`, by position
FsIdx(op, path) ==
  {i \in 1..Len(fsLog) : fsLog[i].op = op /\ fsLog[i].path = path}

\* savePullRequest has returned
Saved == entry = "savePullRequest" /\ pc = "done"

\* C10: once savePullRequest has returned, the pull request's directory and its
\* images subdirectory have been created and the markdown file and then the
\* JSON file have been written, whatever the format and the downloadImages flag.
C10_SaveLayout ==
  Saved =>
    /\ FsIdx("ensureDir", prDirOf(sopts, data)) # {}
    /\ FsIdx("ensureDir", imagesDirOf(sopts, data)) # {}
    /\ \E m \in FsIdx("writeFile", mdPathOf(sopts, data)) :
         \E j \in FsIdx("writeFile", jsonPathOf(sopts, data)) : m < j

\* C4: a run of main with both --force-api and --force-gh ends with exit status
\* 1 and the 'Cannot use both' error as its only output; the reference is never
\* parsed, no gh command is run (no token lookup, no probe) and loadPullRequest
\* is never invoked.
C4_RejectsBothFlags ==
  (entry = "main" /\ argv.forceApi /\ argv.forceGh) =>
    /\ pc \in {"m_start", "done"}
    /\ prInfo = NoPrInfo
    /\ calls = <<>>
    /\ opts = NoOpts /\ loaded = NotLoaded
    /\ token = None
    /\ stdout = <<>> /\ fsLog = <<>>
    /\ IF pc = "done" THEN exitCode = 1 /\ logs = <<BothFlagsError>>
       ELSE exitCode = -1 /\ logs = <<>>

\* a rejected run whose reference and token would otherwise have been used
C4_Witness ==
  /\ entry = "main" /\ argv.forceApi /\ argv.forceGh
  /\ parsePrUrl(argv.pr) # NullPrInfo /\ argv.token = None
  /\ pc = "done" /\ exitCode = 1

\* the token the command line or the environment supplies
Supplied == IF argv.flagToken # None THEN argv.flagToken ELSE argv.envToken

\* the token `gh auth token` printed in this run, None if it printed none
GhCliToken ==
  LET printed == {i \in Idx("gh auth token") :
                    calls[i].result.status = "ok" /\ calls[i].result.by # ""}
  IN IF printed = {} THEN None
     ELSE calls[CHOOSE i \in printed : TRUE].result.by

Credential == IF Supplied # None THEN Supplied ELSE GhCliToken

\* C8: the token main hands to loadPullRequest, the one the API adapter is
\* called with, the one savePullRequest gets and the one sent with image
\* downloads is the first available of --token, GITHUB_TOKEN and the gh CLI's
\* token, under every combination of flags.
C8_CredentialPriority ==
  (entry = "main" /\ opts # NoOpts) =>
    /\ opts.token = Credential
    /\ \A a \in ApiCalls : calls[a].args.token = Credential
    /\ sopts # NoSopts => sopts.token = Credential
    /\ \A i \in 1..Len(downloads) : downloads[i].auth \in {None, Credential}

\* the server's script is k followed redirects and then a 200 response
RedirectsThenOk(k) ==
  /\ Len(dl.script) = k + 1
  /\ \A i \in 1..k : IsFollowed(dl.script[i])
  /\ dl.script[k + 1].status = 200

\* no socket error and no timeout ended the call
Undisturbed == dl.result.error \notin {"socket hang up", "Request timeout"}

\* C11: a downloadFile call with the default limit whose server redirects k
\* times, 0 <= k <= 5, and then answers 200 resolves with that answer's body.
C11_FollowsFiveHops ==
  (entry = "downloadFile" /\ pc = "done" /\ Undisturbed
   /\ dl.limit = DefaultMaxRedirects
   /\ \E k \in 0..DefaultMaxRedirects : RedirectsThenOk(k))
  => dl.result = Fetched(dl.script[Len(dl.script)].body)

\* buffer b begins with the bytes s
Begins(b, s) == Len(b) >= Len(s) /\ \A i \in 1..Len(s) : b[i] = s[i]

\* '<!', '<html' and '<HTML'
BeginsHtml(b) ==
  \/ Begins(b, <<60, 33>>)
  \/ Begins(b, <<60, 104, 116, 109, 108>>)
  \/ Begins(b, <<60, 72, 84, 77, 76>>)

\* the format of the signature b begins with, 'unknown' when it begins with none
SignatureFormat(b) ==
  CASE Begins(b, <<137, 80, 78, 71>>) -> "png"
    [] Begins(b, <<255, 216, 255>>) -> "jpg"
    [] Begins(b, <<71, 73, 70, 56>>) -> "gif"
    [] Begins(b, <<82, 73, 70, 70>>) -> "webp"
    [] Begins(b, <<66, 77>>) -> "bmp"
    [] Begins(b, <<0, 0, 1, 0>>) -> "ico"
    [] Begins(b, <<60, 63, 120, 109, 108>>) -> "svg"
    [] Begins(b, <<60, 115, 118, 103>>) -> "svg"
    [] OTHER -> "unknown"

Validated == entry = "validateImageBuffer" /\ pc = "done"

\* C12: validateImageBuffer rejects a buffer exactly when it is null or empty,
\* shorter than 4 bytes, or begins with '<!', '<html' or '<HTML'; every other
\* buffer is valid with the format of the signature it begins with, 'unknown'
\* when it begins with none.
C12_ValidatorVerdict ==
  Validated =>
    /\ call.result.valid = ~(Len(call.arg) < 4 \/ BeginsHtml(call.arg))
    /\ call.result.valid => call.result.format = SignatureFormat(call.arg)

\* an upper-case HTML page has been rejected
C12_Witness ==
  /\ Validated
  /\ Begins(call.arg, <<60, 72, 84, 77, 76>>)
  /\ ~call.result.valid

Parsed == entry = "parsePrUrl" /\ pc = "done"

\* the reference holds no '#'
NoHash(ref) == \A i \in 1..Len(ref) : ref[i] # "#"

\* the reference holds no '/pull/' segment
NoPullSegment(ref) ==
  \A i \in 1..Len(ref) :
    ~(i + 2 <= Len(ref) /\ ref[i] = "/" /\ ref[i + 1] = "pull" /\ ref[i + 2] = "/")

IsDigit(t) == t \in {"0", "1", "2", "3", "4", "5", "6", "7", "8", "9"}

\* no PR number: the reference holds no digit
NoNumber(ref) == \A i \in 1..Len(ref) : ~IsDigit(ref[i])

\* a PR identifier that is not numeric: no '#' and no '/' is followed by a digit
NonNumericIdentifier(ref) ==
  \A i \in 1..Len(ref) :
    (ref[i] \in {"/", "#"} /\ i < Len(ref)) => ~IsDigit(ref[i + 1])

\* the token holds a slash
HasSlash(t) == t \in {"/", "https://"}

\* the reference reads o/r/n: two parts free of '/', then digits to the end
IsSlashShorthand(ref) ==
  \E i, j \in 1..Len(ref) :
    /\ 1 < i /\ i + 1 < j /\ j < Len(ref)
    /\ ref[i] = "/" /\ ref[j] = "/"
    /\ \A k \in 1..Len(ref) : (k # i /\ k # j) => ~HasSlash(ref[k])
    /\ \A k \in (j + 1)..Len(ref) : IsDigit(ref[k])

MatchedPatterns(ref) ==
  {"urlMatch" : i \in {j \in 1..Len(ref) : urlMatch(ref, j) # NullPrInfo}}
  \cup (IF anchoredMatch(ref, "#", SlashTokens \cup HashTokens) # NullPrInfo
        THEN {"shortMatch"} ELSE {})
  \cup (IF anchoredMatch(ref, "/", SlashTokens) # NullPrInfo
        THEN {"altMatch"} ELSE {})

\* C14: for an owner o and a repository r with no '/' and no '#' and a decimal
\* number n, parsePrUrl resolves https://github.com/o/r/pull/n, o/r#n and o/r/n
\* to owner o, repo r and prNumber n; no reference matches two of the patterns.
C14_ThreeFormsResolve ==
  Parsed =>
    /\ \A o \in Names, r \in Names, n \in Numbers :
         call.arg \in { FullUrl(o, r, n.digits), Shorthand(o, r, n.digits),
                        SlashShorthand(o, r, n.digits) }
         => call.result = [owner |-> o, repo |-> r, prNumber |-> n.value]
    /\ Cardinality(MatchedPatterns(call.arg)) <= 1

\* o/r/12 has been resolved to pull request 12 of o/r
C14_Witness ==
  /\ Parsed
  /\ call.arg = SlashShorthand(<<"o">>, <<"r">>, <<"1", "2">>)
  /\ call.result = [owner |-> <<"o">>, repo |-> <<"r">>, prNumber |-> 12]

\* number, title, author login, state and merged flag of a dataset
KeyFields(d) ==
  [number |-> d.pr.number, title |-> d.pr.title, author |-> d.pr.user,
   state |-> d.pr.state, merged |-> d.pr.merged]

\* the dataset the CLI adapter yields for the pull request when gh succeeds
GhDataset ==
  loadPullRequestWithGh(AdapterArgs(opts, FALSE), remote, <<"ok">>, TRUE).outcome.data

\* the dataset the API adapter yields for the pull request when no call fails
ApiDataset ==
  loadPullRequestWithApi(AdapterArgs(opts, TRUE), remote, 0, 404).outcome.data

\* C15: the dataset of either adapter agrees with the dataset the other adapter
\* yields for the same pull request on number, title, author login, state and
\* merged flag, and its state is 'open' or 'closed'.
C15_AdaptersAgree ==
  (entry = "loadPullRequest" /\ pc = "done" /\ loaded.status = "ok") =>
    /\ KeyFields(loaded.data) = KeyFields(GhDataset)
    /\ KeyFields(loaded.data) = KeyFields(ApiDataset)
    /\ loaded.data.pr.state \in {"open", "closed"}

\* the n of the file name image-<n><ext> of a Downloaded Image Record
ImageNumber(record) ==
  SubSeq(record.relativePath, 3, Len(record.relativePath) - 1)

\* C16: over one convertToMarkdown call the images saved are numbered by one
\* counter shared by all text blocks: the i-th image saved is image-<i>.
C16_SharedCounter ==
  entry = "convertToMarkdown" =>
    \A i \in 1..Len(allDownloadedImages) :
      ImageNumber(allDownloadedImages[i]) = DecimalOf(i)

\* a write of image bytes
IsImageWrite(o) == o.op = "writeFile" /\ o.bytes # <<>>

\* the image files written so far, in order; the k-th belongs to the k-th
\* Downloaded Image Record
ImageWrites == SelectSeq(fsLog, IsImageWrite)

\* C17: within one convertToMarkdown call no two Downloaded Image Records have
\* the same localPath, no image file is written twice, and the file of every
\* record holds the bytes downloaded for that record.
C17_NoOverwrite ==
  entry = "convertToMarkdown" =>
    /\ \A i, j \in 1..Len(allDownloadedImages) :
         i < j => allDownloadedImages[i].localPath # allDownloadedImages[j].localPath
    /\ \A i, j \in 1..Len(ImageWrites) :
         i < j => ImageWrites[i].path # ImageWrites[j].path
    /\ \A k \in 1..Len(allDownloadedImages) :
         LET last == CHOOSE i \in 1..Len(ImageWrites) :
                       /\ ImageWrites[i].path = allDownloadedImages[k].localPath
                       /\ \A j \in 1..Len(ImageWrites) :
                            ImageWrites[j].path = ImageWrites[i].path => j <= i
         IN ImageWrites[last].bytes = ImageWrites[k].bytes

\* how many Downloaded Image Records the blocks before the k-th produced
RecordsBefore(k) ==
  Cardinality({j \in 1..DownloadsBefore(k) : ~NotLocalized(downloads[j])})

\* C18: when a rendered text block holds an image URL more than once and the
\* URL can be downloaded, the block made one download of it, produced one
\* Downloaded Image Record for it, and every occurrence reads that record's
\* relative path.
C18_SameUrlOnce ==
  entry = "convertToMarkdown" =>
    \A k \in 1..Len(markdown) :
      k <= Len(Blocks(data)) =>
        LET urls == ImagesOf(k)
            base == DownloadsBefore(k)
            now == extractMarkdownImageUrls(markdown[k].body)
            records == SubSeq(allDownloadedImages, RecordsBefore(k) + 1,
                              RecordsBefore(k + 1))
        IN \A i \in 1..Len(urls) :
             LET same == {j \in 1..Len(urls) : urls[j] = urls[i]}
                 mine == {j \in 1..Len(records) : records[j].originalUrl = urls[i]}
             IN (Cardinality(same) > 1
                 /\ \A j \in same : ~NotLocalized(downloads[base + j]))
                => /\ Cardinality({j \in 1..Len(urls) :
                                     downloads[base + j].url = urls[i]}) = 1
                   /\ Cardinality(mine) = 1
                   /\ Len(now) = Len(urls)
                   /\ \A j \in same, m \in mine : now[j] = records[m].relativePath

\* where the document shows the review comment: the positions of its blocks
ShownInline(rc) ==
  {k \in 1..Len(markdown) :
     markdown[k].kind \in {"inline", "standalone"} /\ markdown[k].id = rc.id}

\* the review the comment names stands in the Conversation section
ReviewRendered(rc) ==
  \E k \in 1..Len(markdown) :
    markdown[k].kind = "review" /\ markdown[k].id = rc.pull_request_review_id

\* C19: the finished document shows every review comment exactly once: under
\* its review when that review stands in the Conversation section, otherwise
\* (no review id, an id no review has, a pending review) in the standalone
\* section.
C19_EveryInlineCommentOnce ==
  (entry = "convertToMarkdown" /\ Rendered) =>
    \A i \in 1..Len(data.reviewComments) :
      LET rc == data.reviewComments[i]
      IN /\ Cardinality(ShownInline(rc)) = 1
         /\ \A k \in ShownInline(rc) :
              IF ReviewRendered(rc)
              THEN markdown[k].kind = "inline"
                   /\ markdown[k].under = rc.pull_request_review_id
              ELSE markdown[k].kind = "standalone"

\* C20: in the dataset an adapter returns, whatever includeReviews is, every
\* review comment that names a review names one of the dataset's reviews.
C20_NoDanglingReviewId ==
  (entry = "loadPullRequest" /\ pc = "done" /\ loaded.status = "ok") =>
    \A i \in 1..Len(loaded.data.reviewComments) :
      LET rid == loaded.data.reviewComments[i].pull_request_review_id
      IN rid # 0 =>
           \E j \in 1..Len(loaded.data.reviews) : loaded.data.reviews[j].id = rid

\* the host of the request's URL has 'github' in its name
ToGitHub(request) == request.url[1] = "https://github.com/"

\* C21: every request downloadFile issues, the first and each redirect hop,
\* carries the Authorization header exactly when a token was supplied and the
\* host of its URL has 'github' in its name; a hop from a GitHub host to
\* another host carries no token.
C21_TokenOnlyToGitHub ==
  entry = "downloadFile" =>
    /\ \A i \in 1..Len(dl.requests) :
         /\ (dl.requests[i].auth # None) <=> (dl.token # "" /\ ToGitHub(dl.requests[i]))
         /\ dl.requests[i].auth # None => dl.requests[i].auth = dl.token
    /\ \A i \in 1..(Len(dl.requests) - 1) :
         (ToGitHub(dl.requests[i]) /\ ~ToGitHub(dl.requests[i + 1]))
         => dl.requests[i + 1].auth = None

\* a request with the token to GitHub was redirected to another host, and the
\* request made there carried none
C21_Witness ==
  /\ entry = "downloadFile"
  /\ Len(dl.requests) >= 2
  /\ ToGitHub(dl.requests[1]) /\ dl.requests[1].auth = "tok"
  /\ ~ToGitHub(dl.requests[2]) /\ dl.requests[2].auth = None

\* every response of the server redirects to a URL
AlwaysRedirected ==
  \A i \in 1..Len(dl.script) :
    /\ dl.script[i].status >= 300 /\ dl.script[i].status < 400
    /\ dl.script[i].location # <<>>
    /\ dl.script[i].location[1] \in {"https://github.com/", "https://cdn.example/"}

\* a redirect has been followed
Followed ==
  \E i \in 1..Len(dl.requests) : dl.phase[i] = "waiting" /\ dl'.phase[i] = "unread"
                                  /\ dl.script[i].status \in 300..399
                                  /\ dl.script[i].location # <<>>

\* a request has been issued
Requested == Len(dl'.requests) > Len(dl.requests)

Answered ==
  /\ entry = "downloadFile" /\ pc = "done" /\ Undisturbed
  /\ Len(dl.requests) >= 1
  /\ LET res == dl.script[Len(dl.requests)]
     IN ~(res.status \in 300..399 /\ res.location # <<>>)

\* the response that settled the call
Answer0 == dl.script[Len(dl.requests)]

\* the error names the status
Carries(error, status) ==
  \/ status = 201 /\ error = "HTTP 201"
  \/ status = 302 /\ error = "HTTP 302"
  \/ status = 404 /\ error = "HTTP 404"

\* C23 as stated: a response that is not a followed redirect makes the call
\* fail with an error carrying the status exactly when the status is outside
\* 200..299, and every 2xx response resolves with the whole body.
C23_Non2xxFails ==
  Answered =>
    /\ (Answer0.status \notin 200..299) <=> Carries(dl.result.error, Answer0.status)
    /\ Answer0.status \in 200..299 => dl.result = Fetched(Answer0.body)

\* C23 amended: a response that is not a followed redirect makes the call fail
\* with an error carrying the status exactly when the status is not 200, and
\* every 200 response resolves with the whole body.
C23_Not200Fails ==
  Answered =>
    /\ (Answer0.status # 200) <=> Carries(dl.result.error, Answer0.status)
    /\ Answer0.status = 200 => dl.result = Fetched(Answer0.body)

\* a 200 response whose body came in two chunks has resolved the call
C23_Witness ==
  /\ Answered
  /\ Answer0.status = 200
  /\ Len(dl.chunks) = 2
  /\ dl.result = Fetched(Answer0.body)

\* the socket of request i has been destroyed by a timeout or an error
Destroyed(i) ==
  i <= Len(dl.requests) /\ dl.phase[i] # "destroyed" /\ dl'.phase[i] = "destroyed"

\* C24: under every interleaving of response, data, end, socket-error and
\* timeout events the promise downloadFile returns settles exactly once and
\* keeps its outcome; a timeout or error before the body has ended yields
\* failure, and one on the request of an earlier hop changes nothing.
C24_SettlesOnce ==
  /\ [](dl.settles <= 1)
  /\ []((entry = "downloadFile" /\ pc = "done") => dl.settles = 1)
  /\ [][dl.settles = 1 => dl'.result = dl.result]_vars
  /\ [][(pc \in {"d_wait", "d_body"} /\ Destroyed(Len(dl.requests)))
        => (dl'.result.error \in {"Request timeout", "socket hang up"}
            /\ pc' = "done")]_vars
  /\ [][(\E i \in 1..(Len(dl.requests) - 1) : Destroyed(i))
        => (dl'.result = dl.result /\ pc' = pc)]_vars

\* a redirected download has succeeded although the request of the first hop
\* timed out or failed afterwards
C24_Witness ==
  /\ entry = "downloadFile" /\ pc = "done"
  /\ Len(dl.requests) >= 2
  /\ dl.phase[1] = "destroyed"
  /\ dl.result = Fetched(dl.script[Len(dl.requests)].body)
  /\ dl.settles = 1

\* the images of a text in scan order: the markdown-syntax matches, then the
\* HTML img matches
ScanOrder(body) == MdMatches(body, 1) \o HtmlMatches(body, 1)

\* downloadImages is at work on the text block ri
Localizing == pc \in {"r_image", "r_await"}

\* a download starts
Starts == loop'.inFlight # loop.inFlight /\ loop.inFlight \subseteq loop'.inFlight

\* C25: during a render at most one image download is in flight; a download
\* starts only when none is in flight and every earlier image of the block has
\* settled; and the images of a block are attempted in scan order, all the
\* markdown-syntax matches and then all the HTML img matches.
C25_OneDownloadAtATime ==
  /\ [](Cardinality(loop.inFlight) <= 1)
  /\ [][Starts =>
          /\ loop.inFlight = {}
          /\ loop'.inFlight = {loop.k}
          /\ Len(downloads) = DownloadsBefore(ri) + loop.k - 1]_vars
  /\ [](Localizing =>
          /\ loop.images = ScanOrder(Blocks(data)[ri].body)
          /\ Len(downloads) = DownloadsBefore(ri) + loop.k - 1
          /\ \A j \in 1..(loop.k - 1) :
               downloads[DownloadsBefore(ri) + j].url = loop.images[j])
  /\ [](\A b \in 1..Len(Blocks(data)) :
          \A j \in 1..(IF b <= Len(markdown) THEN Len(ImagesOf(b)) ELSE 0) :
            /\ DownloadsBefore(b) + j <= Len(downloads)
            /\ downloads[DownloadsBefore(b) + j].url
                 = ScanOrder(Blocks(data)[b].body)[j])

\* the download of an HTML img is in flight after the download of the markdown
\* image that stands behind it in the text has settled
C25_Witness ==
  /\ entry = "convertToMarkdown"
  /\ pc = "r_await"
  /\ Blocks(data)[ri].body = Html(UrlB) \o <<" ">> \o Md(UrlA)
  /\ loop.inFlight = {2}
  /\ loop.images[2] = UrlB
  /\ downloads[Len(downloads)].url = UrlA

\* the body-bearing fields of the dataset in the order PR body, comment bodies,
\* review bodies, inline-review-comment bodies
BodyFields(d) ==
  <<d.pr.body>>
  \o [i \in 1..Len(d.comments) |-> d.comments[i].body]
  \o [i \in 1..Len(d.reviews) |-> d.reviews[i].body]
  \o [i \in 1..Len(d.reviewComments) |-> d.reviewComments[i].body]

\* the images of a sequence of texts, text by text
RECURSIVE ImagesIn(_)
ImagesIn(bodies) ==
  IF bodies = <<>> THEN <<>>
  ELSE extractMarkdownImageUrls(bodies[1]) \o ImagesIn(Tail(bodies))

\* C26: a render with image download enabled localizes the PR body, then the
\* comment bodies, then the review bodies, then the inline-review-comment
\* bodies, and leaves out no body-bearing field: the images it attempted are
\* the images of these fields in that order.
C26_LocalizationOrder ==
  (entry = "convertToMarkdown" /\ Rendered /\ ropts.downloadImagesFlag) =>
    [j \in 1..Len(downloads) |-> downloads[j].url] = ImagesIn(BodyFields(data))

\* the JSON document savePullRequest wrote
SavedJson ==
  fsLog[CHOOSE j \in FsIdx("writeFile", jsonPathOf(sopts, data)) : TRUE].text[1]

\* the field of the dataset `d` (or of the JSON document) that the block shows
FieldOf(comments, reviews, reviewComments, prBody, block) ==
  LET among(items) == {items[i].body : i \in {j \in 1..Len(items) : items[j].id = block.id}}
  IN CASE block.kind = "description" -> {prBody}
       [] block.kind = "comment" -> among(comments)
       [] block.kind = "review" -> among(reviews)
       [] block.kind \in {"inline", "standalone"} -> among(reviewComments)
       [] OTHER -> {}

\* C27: once savePullRequest has returned from a render with image download
\* enabled, each body-bearing field the document shows holds, in the dataset
\* and in the JSON file written, the localized text the markdown holds.
C27_JsonCarriesLocalized ==
  (Saved /\ sopts.downloadImages) =>
    \A b \in 1..Len(markdown) :
      /\ FieldOf(data.comments, data.reviews, data.reviewComments,
                 data.pr.body, markdown[b]) \subseteq {markdown[b].body}
      /\ FieldOf(SavedJson.comments, SavedJson.reviews, SavedJson.reviewComments,
                 SavedJson.pullRequest.body, markdown[b]) \subseteq {markdown[b].body}

\* the text holds images, and each is a relative path into the images directory
AlreadyRewritten(body) ==
  /\ extractMarkdownImageUrls(body) # <<>>
  /\ \A j \in 1..Len(extractMarkdownImageUrls(body)) :
       extractMarkdownImageUrls(body)[j][1] = "./images/"

\* C28: while the localization pass works on a text that holds only relative
\* image paths it sends no request, writes no file and produces no Downloaded
\* Image Record, and the text it returns is the text it was given.
C28_Idempotent ==
  [][(Localizing /\ AlreadyRewritten(Blocks(data)[ri].body)) =>
       /\ \A j \in (Len(downloads) + 1)..Len(downloads') : ~downloads'[j].requested
       /\ \A j \in (Len(fsLog) + 1)..Len(fsLog') : fsLog'[j].op # "writeFile"
       /\ loop'.downloadedImages = <<>>
       /\ allDownloadedImages' = allDownloadedImages
       /\ pc' = "r_block" => markdown'[ri].body = Blocks(data)[ri].body]_vars

\* the pass has run over a text that an earlier pass had rewritten
C28_Witness ==
  /\ entry = "convertToMarkdown" /\ ropts.downloadImagesFlag
  /\ Len(markdown) >= 1
  /\ AlreadyRewritten(Blocks(data)[1].body)
  /\ markdown[1].body = Md(<<"./images/", "image-", "1", ".png">>)
  /\ Len(downloads) >= 1 /\ ~downloads[1].requested

\* the CLI adapter invocation g made its primary call with success and its
\* review-comments call without
SupplementaryFailed(g) ==
  /\ g + 2 <= Len(calls)
  /\ calls[g + 1].op = "gh pr view" /\ calls[g + 1].result.status = "ok"
  /\ calls[g + 2].op = "gh api pulls/comments"
  /\ calls[g + 2].result.status = "error"

\* C29: when the primary gh call succeeds and the review-comments call fails,
\* loadPullRequestWithGh returns the dataset mapped from the primary call with
\* no review comments, and loadPullRequest hands it on without calling the API
\* adapter.
C29_SupplementaryFailureTolerated ==
  \A g \in GhCalls :
    SupplementaryFailed(g) =>
      /\ calls[g].result =
           Ok([transformGhPrData(GhView(remote, calls[g + 1].requested))
                 EXCEPT !.reviewComments = <<>>], "gh")
      /\ loaded = calls[g].result
      /\ ApiCalls = {}
      /\ \A i \in 1..Len(calls) : calls[i].op \notin Range(ApiEndpoints(TRUE))

\* a pull request that has review comments, loaded without them and without
\* fallback after the review-comments call failed
C29_Witness ==
  /\ \E g \in GhCalls : SupplementaryFailed(g)
  /\ ~opts.forceGh /\ ~opts.forceApi
  /\ remote.reviewComments # <<>>
  /\ loaded.status = "ok" /\ loaded.by = "gh"
  /\ loaded.data.reviewComments = <<>>

\* the CLI adapter invocation g failed in its primary call
PrimaryFailed(g) ==
  /\ g + 1 <= Len(calls)
  /\ calls[g + 1].op = "gh pr view" /\ calls[g + 1].result.status = "error"

\* the three classes of a failed primary call
NotFoundClass == "Pull request not found"

AuthClass == "Authentication failed. Please run gh auth login"

GenericClass == "Failed to fetch pull request via gh CLI"

\* the class the error text falls in when the texts are tried in the order
\* 'not found' / 'Could not resolve', then 'auth' / '401'
ClassOf(text) ==
  IF \E i \in 1..Len(text) :
       Needles(text[i]) \cap {"not found", "Could not resolve"} # {}
  THEN NotFoundClass
  ELSE IF \E i \in 1..Len(text) : Needles(text[i]) \cap {"auth", "401"} # {}
  THEN AuthClass
  ELSE GenericClass

\* C30: a failed primary call is classified by its error text, not-found first,
\* then authentication, else a generic failure that wraps the text; and for
\* each of the three classes there is a way for the gh command to fail that
\* falls in it.
C30_ThreeClasses ==
  /\ \A g \in GhCalls :
       PrimaryFailed(g) =>
         LET text == calls[g + 1].result.error.raw
         IN /\ calls[g].result.status = "error"
            /\ calls[g].result.error.msg = ClassOf(text)
            /\ calls[g].result.error.raw
                 = IF ClassOf(text) = GenericClass THEN text ELSE <<>>
  /\ \A class \in {NotFoundClass, AuthClass, GenericClass} :
       \E stderr \in GhStderr :
         GhClassify(CommandFailed(ghCommand(opts), stderr)).msg = class

====
